---- MODULE Spec2Model ----
(***************************************************************************)
(* Delivery dispatch of the Nouhin report sender.                          *)
(*                                                                         *)
(* One invocation of cron_sender runs in a fresh process: it reads the     *)
(* JSON files of the storage repository (reports.json, delivery_logs.json, *)
(* automatic_delivery_log.json, system_settings.json), keeps what it read  *)
(* in GitHubStorage's in-memory cache, posts to Slack, and writes whole    *)
(* files back.  Time is the second of the day; a date is a day number.     *)
(***************************************************************************)
EXTENDS Integers, Sequences, FiniteSets, TLC

\* ---------------------------------------------------------------- bounds
MaxDay == 2
MaxCycles == 3
\* the longest channel history a send is studied with
MaxHistory == 2
\* the largest user directory a name is resolved in
MaxUsers == 3
\* the most calls on a store (add_log_entry, mark_as_delivered, add_report)
\* a run is studied over
MaxLogCalls == 3
\* the most calls of the recipient resolver on one client
MaxCalls == 3

\* ------------------------------------------------------ program constants
SecondsPerMinute == 60
MinutesPerHour == 60
HoursPerDay == 24
ToleranceMinutes == 15
NoDate == 0

MinutesPerDay == HoursPerDay * MinutesPerHour

\* datetime.now().isoformat() of a moment, and None
Stamp(d, t) == <<d, t>>
NoStamp == << >>

HM(h, m) == (h * MinutesPerHour + m) * SecondsPerMinute
HMS(h, m, s) == HM(h, m) + s

Procs == {"p1", "p2"}
\* the one process of an invocation when invocations do not overlap
Cron == {"p1"}

\* The instants at which the periodic trigger starts an invocation of the
\* scheduled dispatcher.
SchedClock ==
    { HM(8, 40), HM(8, 50), HM(9, 0), HM(9, 10) }

VARIABLES
    reports,    \* reports.json: report id -> report record
    logs,       \* delivery_logs.json: entries, each with its day bucket
    day,        \* today's date
    now,        \* second of the day
    cycles,     \* invocations started so far
    sends,      \* history: every call of the Messaging Client's send
    pc,         \* per process: position in the invocation
    cache,      \* per process: GitHubStorage._cache["reports.json"]
    queue,      \* per process: the items the loop has still to visit
    ctime,      \* per process: current_time / today_str read at the start
    res,        \* per process: result of the delivery being recorded
    autoLog,    \* automatic_delivery_log.json: the (day, delivery key) entries
    settings,   \* system_settings.json: automatic_delivery_enabled, or no file
    sheet,      \* the rows of the status sheet
    results,    \* per process: the results list of process_automatic_deliveries
    alog,       \* per process: GitHubStorage._cache of the automatic log
    outcomes,   \* history: every result process_automatic_deliveries appended
    probe       \* the call under study of a function checked on its own

autoVars == <<autoLog, settings, sheet, results, alog, outcomes>>

vars == <<reports, logs, day, now, cycles, sends, pc, cache, queue, ctime, res,
          autoLog, settings, sheet, results, alog, outcomes, probe>>

\* ---------------------------------------------------------------- reports
\* dict order of reports.json
ReportOrder == <<"RPT_00001", "RPT_00002">>
ReportIds == {ReportOrder[i] : i \in 1..Len(ReportOrder)}

\* A schedule_time string "HH:MM", or a string split(':') / int() rejects.
Time(h, m) == [ok |-> TRUE, h |-> h, m |-> m]
BadTime == [ok |-> FALSE, h |-> 0, m |-> 0]

NewReport(name, mode, enabled, stime, task, channel, hint) ==
    [ name |-> name, delivery_mode |-> mode, schedule_enabled |-> enabled,
      schedule_time |-> stime, automatic_task_id |-> task, channel |-> channel,
      thread_content |-> hint, thread_ts |-> "", last_sent_date |-> NoDate,
      delivery_count |-> 0, last_delivered |-> NoStamp ]

\* ------------------------------------------------------- report_manager.py
\* _standardize_report_data: a new dict holding the standard fields only.
\* 'last_sent_date' is not one of them, so .get('last_sent_date', '') of the
\* result is ''.
StandardizeReportData(data) ==
    [ name |-> data.name, delivery_mode |-> data.delivery_mode,
      schedule_enabled |-> data.schedule_enabled,
      schedule_time |-> data.schedule_time,
      automatic_task_id |-> data.automatic_task_id, channel |-> data.channel,
      thread_content |-> data.thread_content, thread_ts |-> data.thread_ts,
      last_sent_date |-> NoDate,
      delivery_count |-> data.delivery_count,
      last_delivered |-> data.last_delivered ]

\* update_report: the map that is saved (and cached) for reports.json
UpdateReport(rs, rid, data) ==
    IF rid \in DOMAIN rs
    THEN [rs EXCEPT ![rid] =
            [StandardizeReportData(data) EXCEPT
                !.delivery_count = rs[rid].delivery_count,
                !.last_delivered = rs[rid].last_delivered]]
    ELSE rs

\* increment_delivery_count: the map that is saved (and cached)
IncrementDeliveryCount(rs, rid, stamp) ==
    IF rid \in DOMAIN rs
    THEN [rs EXCEPT ![rid].delivery_count = @ + 1,
                    ![rid].last_delivered = stamp]
    ELSE rs

\* ------------------------------------------------- delivery_logs_manager.py
LogEntry(d, rid, status, stime, err) ==
    [day |-> d, report_id |-> rid, status |-> status,
     scheduled_time |-> stime, error |-> err]

\* add_log_entry: load, append to today's bucket, save
\* add_log_entry if a skipped result left no entry
AddLogEntryDropsSkipped(lg, entry) ==
    IF entry.status = "skipped" THEN lg ELSE Append(lg, entry)

AddLogEntry(lg, entry) == Append(lg, entry)

\* ------------------------------------------------ slack_delivery_simple.py
\* A channel message as conversations_history returns it.  ratio is
\* SequenceMatcher(None, hint, text).ratio() in percent, contains is
\* "hint in text or text in hint", both for the lower-cased, stripped texts.
Message(ts, ratio, contains, subtype, blank) ==
    [ts |-> ts, ratio |-> ratio, contains |-> contains,
     subtype |-> subtype, blank |-> blank]

\* What the process finds around it when it sends: the environment variable
\* DELIVERY_TEST_SLACK_DEFAULT_CHANNEL_ID, the channel directory, the channel
\* history, and whether the Slack calls raise SlackApiError.
Env(default, channels, history, history_ok, api_ok) ==
    [default_channel |-> default, channels |-> channels, history |-> history,
     history_ok |-> history_ok, api_ok |-> api_ok]

SubstringBoost == 80
ThreadThreshold == 70

MaxOf(a, b) == IF a > b THEN a ELSE b

\* the loop of _find_matching_thread if containment did not raise the score
RECURSIVE BestThreadNoBoost(_, _, _)
BestThreadNoBoost(messages, i, best) ==
    IF i > Len(messages) THEN best
    ELSE LET m == messages[i]
         IN  IF m.blank \/ m.subtype = "channel_join"
             THEN BestThreadNoBoost(messages, i + 1, best)
             ELSE IF m.ratio > best.score
                  THEN BestThreadNoBoost(messages, i + 1,
                           [found |-> TRUE, ts |-> m.ts, score |-> m.ratio])
                  ELSE BestThreadNoBoost(messages, i + 1, best)

\* the loop of _find_matching_thread over messages[i..]: the best match so far
RECURSIVE BestThread(_, _, _)
BestThread(messages, i, best) ==
    IF i > Len(messages) THEN best
    ELSE LET m == messages[i]
             score == IF m.contains THEN MaxOf(m.ratio, SubstringBoost)
                      ELSE m.ratio
         IN  IF m.blank \/ m.subtype = "channel_join"
             THEN BestThread(messages, i + 1, best)
             ELSE IF score > best.score
                  THEN BestThread(messages, i + 1,
                                  [found |-> TRUE, ts |-> m.ts, score |-> score])
                  ELSE BestThread(messages, i + 1, best)

\* _find_matching_thread if a score equal to the threshold were enough
FindMatchingThreadAtThreshold(thread_content, env) ==
    IF thread_content = "" THEN ""
    ELSE IF ~env.history_ok THEN ""
    ELSE LET best == BestThread(env.history, 1,
                                [found |-> FALSE, ts |-> "", score |-> 0])
         IN  IF best.found /\ best.score >= ThreadThreshold THEN best.ts ELSE ""

\* _find_matching_thread: the thread timestamp, or "" for None
FindMatchingThread(thread_content, env) ==
    IF thread_content = "" THEN ""
    ELSE IF ~env.history_ok THEN ""
    ELSE LET best == BestThread(env.history, 1,
                                [found |-> FALSE, ts |-> "", score |-> 0])
         IN  IF best.found /\ best.score > ThreadThreshold THEN best.ts ELSE ""

\* _find_matching_thread: whether conversations_history is called
ReadsHistory(thread_content) == thread_content # ""

SendResult(success, error, posted, thread) ==
    [success |-> success, error |-> error, posted |-> posted, thread_ts |-> thread]

\* self._users_cache: None until the first call
NoUsersCache == [loaded |-> FALSE, users |-> << >>]

\* _get_users_list if a failed users_list call were not remembered
GetUsersListRetries(users_cache, members, api_ok) ==
    IF users_cache.loaded THEN users_cache
    ELSE IF api_ok
         THEN [loaded |-> TRUE,
               users |-> SelectSeq(members, LAMBDA u : ~u.deleted /\ ~u.is_bot)]
         ELSE NoUsersCache

\* _get_users_list: the cache after the call; the first call fills it with
\* the active, non-bot members, or with [] when users_list raises
GetUsersList(users_cache, members, api_ok) ==
    IF users_cache.loaded THEN users_cache
    ELSE IF api_ok
         THEN [loaded |-> TRUE,
               users |-> SelectSeq(members, LAMBDA u : ~u.deleted /\ ~u.is_bot)]
         ELSE [loaded |-> TRUE, users |-> << >>]

\* A member of users_list as _find_user_by_name sees it for the name it is
\* given: exact is "the name equals real_name, name or display_name",
\* substring is "the name is in one of them", ratio is the largest of the
\* three SequenceMatcher ratios in percent; all for the lower-cased texts.
User(id, exact, substring, ratio) ==
    [id |-> id, exact |-> exact, substring |-> substring, ratio |-> ratio]

FuzzyThreshold == 80
ExactScore == 100
SubstringScore == 90

NoMatch == [found |-> FALSE, user |-> "", score |-> 0, matched_field |-> "no_match"]
Match(user, score, field) ==
    [found |-> TRUE, user |-> user, score |-> score, matched_field |-> field]

\* the first pass of _find_user_by_name over users[i..]: the first member
\* that matches exactly or by substring
RECURSIVE FirstPass(_, _)
FirstPass(users, i) ==
    IF i > Len(users) THEN NoMatch
    ELSE IF users[i].exact THEN Match(users[i].id, ExactScore, "exact_match")
    ELSE IF users[i].substring
         THEN Match(users[i].id, SubstringScore, "substring_match")
    ELSE FirstPass(users, i + 1)

\* the second pass if a score equal to the threshold were enough
RECURSIVE BestFuzzyAtThreshold(_, _, _)
BestFuzzyAtThreshold(users, i, best) ==
    IF i > Len(users) THEN best
    ELSE IF users[i].ratio > best.score /\ users[i].ratio >= FuzzyThreshold
         THEN BestFuzzyAtThreshold(users, i + 1,
                                   Match(users[i].id, users[i].ratio, "fuzzy_match"))
         ELSE BestFuzzyAtThreshold(users, i + 1, best)

\* the second pass over users[i..]: the best fuzzy match so far
RECURSIVE BestFuzzy(_, _, _)
BestFuzzy(users, i, best) ==
    IF i > Len(users) THEN best
    ELSE IF users[i].ratio > best.score /\ users[i].ratio > FuzzyThreshold
         THEN BestFuzzy(users, i + 1,
                        Match(users[i].id, users[i].ratio, "fuzzy_match"))
         ELSE BestFuzzy(users, i + 1, best)

\* _find_user_by_name: the match, or NoMatch for None
FindUserByName(users) ==
    IF users = << >> THEN NoMatch
    ELSE IF FirstPass(users, 1).found THEN FirstPass(users, 1)
    ELSE BestFuzzy(users, 1, NoMatch)

\* _convert_name_to_mention: "<@id>", or "@name" with the name as given
ConvertNameToMention(users) ==
    IF FindUserByName(users).found
    THEN [resolved |-> TRUE, user |-> FindUserByName(users).user]
    ELSE [resolved |-> FALSE, user |-> ""]

\* An optional argument that was not given: Python's None, which an
\* f-string renders as the text "None".
None == "None"

\* one block of the message text: what it is and the text put into it
Block(kind, text) == [kind |-> kind, text |-> text]

\* `if raw_data_link:` is false for None and for ''
Falsy(field) == field \in {None, ""}

\* the text send_type1_message builds, block by block
ComposeType1Message(receiver_mention, author_mention, date_str, raw_data_link, file_link) ==
    << Block("greeting", receiver_mention), Block("sender", author_mention),
       Block("completion", date_str) >>
    \o (IF Falsy(raw_data_link) THEN << >> ELSE << Block("raw_data", raw_data_link) >>)
    \o << Block("link", file_link), Block("closing", "") >>

\* the text send_type1_message_with_file builds, block by block
ComposeType1MessageWithFile(receiver_mention, author_mention, date_str, raw_data_link) ==
    << Block("greeting", receiver_mention), Block("sender", author_mention),
       Block("completion", date_str) >>
    \o (IF Falsy(raw_data_link) THEN << >> ELSE << Block("raw_data", raw_data_link) >>)
    \o << Block("file_note", ""), Block("closing", "") >>

\* the thread decision if an unmatched hint fell back to a new message
SendType1FallsBack(thread_content, thread_ts, env) ==
    LET target == IF thread_ts # "" THEN thread_ts
                  ELSE FindMatchingThread(thread_content, env)
    IN  IF ~env.api_ok
        THEN SendResult(FALSE, "slack_api_error", FALSE, "")
        ELSE SendResult(TRUE, "", TRUE, target)

\* The thread decision shared by send_type1_message and
\* send_type1_message_with_file, then the post (chat_postMessage or
\* files_upload_v2), which raises SlackApiError when the API refuses.
SendType1(thread_content, thread_ts, env) ==
    LET target == IF thread_ts # "" THEN thread_ts
                  ELSE FindMatchingThread(thread_content, env)
    IN  IF thread_ts = "" /\ thread_content # "" /\ target = ""
        THEN SendResult(FALSE, "thread_not_found", FALSE, "")
        ELSE IF ~env.api_ok
             THEN SendResult(FALSE, "slack_api_error", FALSE, "")
             ELSE SendResult(TRUE, "", TRUE, target)

SendType1Message(thread_content, thread_ts, env) ==
    SendType1(thread_content, thread_ts, env)

\* send_type1_message with the mention it puts at the head of the text
Type1Delivery(users, thread_content, thread_ts, env) ==
    [result |-> SendType1Message(thread_content, thread_ts, env),
     receiver_mention |-> ConvertNameToMention(users)]

\* file_exists: open(file_path, 'rb') raises FileNotFoundError otherwise
SendType1MessageWithFile(thread_content, thread_ts, file_exists, env) ==
    LET r == SendType1(thread_content, thread_ts, env)
    IN  IF r.error = "thread_not_found" THEN r
        ELSE IF ~file_exists THEN SendResult(FALSE, "file_not_found", FALSE, "")
        ELSE r

\* __init__ if a missing channel were not checked
ChannelIdUnchecked(channel_name, env) ==
    IF channel_name # "" THEN channel_name ELSE "C0"

\* SlackDeliverySimple.__init__: the channel id, or "" when it raises
\* ValueError("No channel specified ...")
ChannelId(channel_name, env) ==
    IF channel_name # ""
    THEN IF channel_name \in env.channels THEN channel_name ELSE ""
    ELSE env.default_channel

\* ------------------------------------------------------------- utils.py
\* str(value).strip() on the strings the model uses
Strip(s) == IF s = " " THEN "" ELSE s

\* prepare_delivery_params: the cleaned fields DeliveryExecutor reads
PrepareDeliveryParams(form) ==
    [channel |-> Strip(form.channel),
     thread_content |-> Strip(form.thread_content),
     thread_ts |-> Strip(form.thread_ts)]

\* DeliveryExecutor.execute with send_file_directly unset
DeliveryExecutorExecute(params, env) ==
    IF ChannelId(params.channel, env) = ""
    THEN SendResult(FALSE, "config_error", FALSE, "")
    ELSE SendType1Message(params.thread_content, params.thread_ts, env)

\* The surroundings a dispatcher's send may meet.
Thread1 == <<Message("ts1", 90, FALSE, "", FALSE)>>
Unrelated == <<Message("ts1", 40, FALSE, "", FALSE)>>
EnvUp == Env("C0", {"general"}, Thread1, TRUE, TRUE)
EnvNoThread == Env("C0", {"general"}, Unrelated, TRUE, TRUE)
EnvApiDown == Env("C0", {"general"}, Thread1, TRUE, FALSE)
EnvNoChannel == Env("", {}, Thread1, TRUE, TRUE)
DispatchEnvs == {EnvUp, EnvNoThread, EnvApiDown}
AutoEnvs == {EnvUp, EnvApiDown, EnvNoChannel}

\* One call of a dispatcher's send: what was sent for, by which invocation,
\* at which instant, and what came back.
SendRecord(kind, id, stime, cyc, d, t, r) ==
    [kind |-> kind, id |-> id, scheduled_time |-> stime, cycle |-> cyc,
     day |-> d, at |-> t, success |-> r.success, posted |-> r.posted,
     thread_ts |-> r.thread_ts]

\* ----------------------------------------------------------- cron_sender.py
\* map(int, schedule_time_str.split(':')) then hour * 60 + minute
ScheduledMinutesTotal(stime) == stime.h * MinutesPerHour + stime.m

\* current_hour * 60 + current_minute of a second of the day
CurrentMinutesTotal(t) == t \div SecondsPerMinute

Abs(x) == IF x < 0 THEN -x ELSE x

\* the test if it compared the two times of one day only
IsDueSameDay(current_minutes_total, scheduled_minutes_total) ==
    Abs(current_minutes_total - scheduled_minutes_total) <= ToleranceMinutes

\* the test "within 15 minutes of the scheduled time"
IsDue(current_minutes_total, scheduled_minutes_total) ==
    LET time_diff == Abs(current_minutes_total - scheduled_minutes_total)
    IN  time_diff <= ToleranceMinutes
        \/ time_diff >= MinutesPerDay - ToleranceMinutes

Pop(p) == queue' = [queue EXCEPT ![p] = Tail(@)]

\* what a process holds before it has read or sent anything
NoResult == SendResult(FALSE, "", FALSE, "")
NoTime == [day |-> NoDate, minutes |-> 0, cycle |-> 0]
\* the GitHubStorage cache of a process that has not read the file yet
NotLoaded == [loaded |-> FALSE, data |-> {}]
\* no function is under study
NoProbe == [op |-> "none", args |-> << >>, result |-> << >>]
Loaded(data) == [loaded |-> TRUE, data |-> data]

Idle == \A q \in Procs : pc[q] = "idle"

\* send_scheduled_reports up to the loop: load_reports, current time, today
SchedStart(p) ==
    /\ pc[p] = "idle"
    /\ cycles < MaxCycles
    /\ cycles' = cycles + 1
    /\ cache' = [cache EXCEPT ![p] = reports]
    /\ queue' = [queue EXCEPT ![p] = ReportOrder]
    /\ ctime' = [ctime EXCEPT ![p] =
                    [day |-> day, minutes |-> CurrentMinutesTotal(now),
                     cycle |-> cycles + 1]]
    /\ pc' = [pc EXCEPT ![p] = "sched_loop"]
    /\ UNCHANGED <<reports, logs, day, now, sends, res, autoVars, probe>>

\* One pass of the loop body up to the delivery: the checks, and the send.
SchedEvaluate(p) ==
    /\ pc[p] = "sched_loop"
    /\ queue[p] # << >>
    /\ LET report_id == Head(queue[p])
           report_data == cache[p][report_id]
           today_str == ctime[p].day
       IN  IF ~report_data.schedule_enabled
           THEN Pop(p) /\ UNCHANGED <<logs, sends, res, pc>>
           ELSE IF ~report_data.schedule_time.ok
           THEN Pop(p) /\ UNCHANGED <<logs, sends, res, pc>>
           ELSE IF ~IsDue(ctime[p].minutes,
                          ScheduledMinutesTotal(report_data.schedule_time))
           THEN Pop(p) /\ UNCHANGED <<logs, sends, res, pc>>
           ELSE IF report_data.last_sent_date = today_str
           THEN /\ logs' = AddLogEntry(logs,
                              LogEntry(day, report_id, "skipped",
                                       report_data.schedule_time, ""))
                /\ Pop(p)
                /\ UNCHANGED <<sends, res, pc>>
           ELSE \E env \in DispatchEnvs :
                  LET params == PrepareDeliveryParams(
                                    [channel |-> report_data.channel,
                                     thread_content |-> report_data.thread_content,
                                     thread_ts |-> ""])
                      result == DeliveryExecutorExecute(params, env)
                  IN  /\ sends' = Append(sends,
                                    SendRecord("scheduled", report_id,
                                               report_data.schedule_time,
                                               ctime[p].cycle, day, now, result))
                      /\ res' = [res EXCEPT ![p] = result]
                      /\ pc' = [pc EXCEPT ![p] = "sched_record"]
                      /\ UNCHANGED <<logs, queue>>
    /\ UNCHANGED <<reports, day, now, cycles, cache, ctime, autoVars, probe>>

\* the bookkeeping if a failed send were marked as sent for the day
SchedRecordMarksFailure(p) ==
    /\ pc[p] = "sched_record"
    /\ LET report_id == Head(queue[p])
           marked == [cache[p] EXCEPT ![report_id].last_sent_date = ctime[p].day]
       IN  /\ logs' = AddLogEntry(logs,
                          LogEntry(day, report_id,
                                   IF res[p].success THEN "success" ELSE "failed",
                                   cache[p][report_id].schedule_time, res[p].error))
           /\ reports' = marked
           /\ cache' = [cache EXCEPT ![p] = marked]
    /\ Pop(p)
    /\ pc' = [pc EXCEPT ![p] = "sched_loop"]
    /\ res' = [res EXCEPT ![p] = NoResult]
    /\ UNCHANGED <<day, now, cycles, sends, ctime, autoVars, probe>>

\* The bookkeeping after the delivery: the log entry, and on success
\* increment_delivery_count, report_data['last_sent_date'] = today_str and
\* update_report.  report_data is the cached dict's own entry.
SchedRecord(p) ==
    /\ pc[p] = "sched_record"
    /\ LET report_id == Head(queue[p])
           stime == cache[p][report_id].schedule_time
           today_str == ctime[p].day
       IN  IF res[p].success
           THEN LET counted == IncrementDeliveryCount(cache[p], report_id,
                                                      Stamp(day, now))
                    marked == [counted EXCEPT
                                  ![report_id].last_sent_date = today_str]
                    saved == UpdateReport(marked, report_id, marked[report_id])
                IN  /\ logs' = AddLogEntry(logs,
                                  LogEntry(day, report_id, "success", stime, ""))
                    /\ reports' = saved
                    /\ cache' = [cache EXCEPT ![p] = saved]
           ELSE /\ logs' = AddLogEntry(logs,
                              LogEntry(day, report_id, "failed", stime,
                                       res[p].error))
                /\ UNCHANGED <<reports, cache>>
    /\ Pop(p)
    /\ pc' = [pc EXCEPT ![p] = "sched_loop"]
    /\ res' = [res EXCEPT ![p] = NoResult]
    /\ UNCHANGED <<day, now, cycles, sends, ctime, autoVars, probe>>

\* the loop is over: send_scheduled_reports returns and the process exits
SchedFinish(p) ==
    /\ pc[p] = "sched_loop"
    /\ queue[p] = << >>
    /\ pc' = [pc EXCEPT ![p] = "idle"]
    /\ cache' = [cache EXCEPT ![p] = << >>]
    /\ ctime' = [ctime EXCEPT ![p] = NoTime]
    /\ UNCHANGED <<reports, logs, day, now, cycles, sends, queue, res, autoVars, probe>>

\* ------------------------------------------------------------------ clock
\* time passes between invocations, to one of the trigger's instants
Tick(times) ==
    /\ Idle
    /\ \E t \in times : t > now /\ now' = t
    /\ UNCHANGED <<reports, logs, day, cycles, sends, pc, cache, queue, ctime, res,
                   autoVars, probe>>

NextDay(times) ==
    /\ Idle
    /\ day < MaxDay
    /\ day' = day + 1
    /\ \E t \in times : now' = t
    /\ UNCHANGED <<reports, logs, cycles, sends, pc, cache, queue, ctime, res,
                   autoVars, probe>>

\* ------------------------------------------------- the scheduled dispatcher

SchedReports ==
    { [r \in ReportIds |->
          IF r = "RPT_00001"
          THEN NewReport("daily", "scheduled", TRUE, t, "", "", hint)
          ELSE NewReport("weekly", "scheduled", TRUE, Time(9, 10), "",
                         "general", "")]
      : t \in {Time(9, 0), BadTime}, hint \in {"", "topic"} }

InitLocal ==
    /\ pc = [p \in Procs |-> "idle"]
    /\ cache = [p \in Procs |-> << >>]
    /\ queue = [p \in Procs |-> << >>]
    /\ ctime = [p \in Procs |-> NoTime]
    /\ res = [p \in Procs |-> NoResult]
    /\ results = [p \in Procs |-> << >>]
    /\ alog = [p \in Procs |-> NotLoaded]

InitSched ==
    /\ reports \in SchedReports
    /\ logs = << >>
    /\ day = 1
    /\ now \in SchedClock
    /\ cycles = 0
    /\ sends = << >>
    /\ outcomes = << >>
    /\ autoLog = {}
    /\ settings = "disabled"
    /\ sheet = << >>
    /\ probe = NoProbe
    /\ InitLocal

\* Invocations one after the other: the trigger starts one when none runs.
NextSched ==
    \/ \E p \in Cron : Idle /\ SchedStart(p)
    \/ \E p \in Procs : SchedEvaluate(p)
    \/ \E p \in Procs : SchedRecord(p)
    \/ \E p \in Procs : SchedFinish(p)
    \/ Tick(SchedClock)
    \/ NextDay(SchedClock)

SpecSched == InitSched /\ [][NextSched]_vars

\* ------------------------------------------- scheduled dispatcher: claims
\* the calls of the send made for item id of dispatcher kind on day d
SendsOf(kind, id, d) ==
    {i \in DOMAIN sends :
        sends[i].kind = kind /\ sends[i].id = id /\ sends[i].day = d}

SuccessLogs(rid) ==
    {i \in DOMAIN logs : logs[i].report_id = rid /\ logs[i].status = "success"}

\* C1: on one calendar day at most one cycle sends a scheduling-enabled
\* report successfully, however many cycles run inside the tolerance.
C1_AtMostOneSuccessPerDay ==
    \A rid \in ReportIds : \A d \in 1..MaxDay :
        Cardinality({i \in SendsOf("scheduled", rid, d) : sends[i].success}) <= 1

\* C2: after a successful scheduled send the stored report has its
\* delivery_count increased by one (so the count equals the number of success
\* entries), last_delivered set and last_sent_date equal to today, and the
\* Delivery Log holds a success entry for it.
C2_SuccessIsPersisted ==
    \A rid \in ReportIds :
        /\ Cardinality({i \in DOMAIN sends :
                           /\ sends[i].kind = "scheduled" /\ sends[i].id = rid
                           /\ sends[i].success
                           /\ \A p \in Procs : ~(pc[p] = "sched_record" /\ i = Len(sends))})
             = Cardinality(SuccessLogs(rid))
        /\ reports[rid].delivery_count = Cardinality(SuccessLogs(rid))
        /\ (SuccessLogs(rid) # {} => reports[rid].last_delivered # NoStamp)
        /\ ((\E i \in SuccessLogs(rid) : logs[i].day = day)
               => reports[rid].last_sent_date = day)

\* C8, the step that records a failed send: a failed entry carrying the error
\* is appended and reports.json is left as it was.
FailureIsOnlyLogged(p) ==
    (pc[p] = "sched_record" /\ ~res[p].success /\ pc'[p] = "sched_loop")
        => /\ reports' = reports
           /\ res[p].error # ""
           /\ logs' = Append(logs,
                         LogEntry(day, Head(queue[p]), "failed",
                                  cache[p][Head(queue[p])].schedule_time,
                                  res[p].error))

\* C8, the next cycle: the loop reaches a report that is inside its tolerance
\* window and whose last send of the day failed, and sends it again.
LastSendFailed(rid, d) ==
    /\ SendsOf("scheduled", rid, d) # {}
    /\ \A i \in SendsOf("scheduled", rid, d) : ~sends[i].success

FailureIsRetried(p) ==
    (/\ pc[p] = "sched_loop" /\ queue[p] # << >>
     /\ pc'[p] # pc[p] \/ queue'[p] # queue[p]
     /\ cache[p][Head(queue[p])].schedule_enabled
     /\ cache[p][Head(queue[p])].schedule_time.ok
     /\ IsDue(ctime[p].minutes,
              ScheduledMinutesTotal(cache[p][Head(queue[p])].schedule_time))
     /\ LastSendFailed(Head(queue[p]), ctime[p].day))
        => /\ Len(sends') = Len(sends) + 1
           /\ sends'[Len(sends')].id = Head(queue[p])
           /\ sends'[Len(sends')].cycle = ctime[p].cycle

\* C8: a failed scheduled send appends a failed entry with the error, leaves
\* last_sent_date and delivery_count unchanged, and the next cycle inside the
\* tolerance window on the same day attempts the send again.
C8_FailedSendIsLoggedAndRetried ==
    [][\A p \in Procs : FailureIsOnlyLogged(p) /\ FailureIsRetried(p)]_vars

\* a report whose send failed in one cycle and was attempted again, on the
\* same day, by a later cycle; the failure is in the Delivery Log
C8_Witness ==
    \E i, j \in DOMAIN sends :
        /\ sends[i].kind = "scheduled" /\ sends[j].kind = "scheduled"
        /\ sends[i].id = sends[j].id /\ sends[i].day = sends[j].day
        /\ ~sends[i].success /\ sends[i].cycle < sends[j].cycle
        /\ \E k \in DOMAIN logs :
              /\ logs[k].report_id = sends[i].id /\ logs[k].status = "failed"
              /\ logs[k].error # "" /\ logs[k].day = sends[i].day
        /\ reports[sends[i].id].delivery_count
              = Cardinality({k \in DOMAIN sends :
                                sends[k].id = sends[i].id /\ sends[k].success})

\* ---------------------------------- enhanced_automatic_delivery_manager.py
\* DELIVERY_CONFIG["completed_status"]; the sheet's other statuses are any
\* other text.
CompletedStatus == "complete"
WindowMinutes == 5
NoonHour == 12
SecondsPerDay == HoursPerDay * MinutesPerHour * SecondsPerMinute

\* A delivery_time cell: the strptime format its text has ("" when it has
\* none of the four), and the numbers written in it.
DeliveryTime(fmt, h, m, s, pm) == [fmt |-> fmt, h |-> h, m |-> m, s |-> s, pm |-> pm]

NotParsed == [ok |-> FALSE, sec |-> 0]
Parsed(sec) == [ok |-> TRUE, sec |-> sec]

\* parse_scheduled_time if it took the numbers of any text for a time
ParseAnyText(t) == Parsed(HMS(t.h % HoursPerDay, t.m, t.s))

\* parse_scheduled_time: the time of day, to be combined with today's date
ParseScheduledTime(t) ==
    LET minute_ok == t.m \in 0..(MinutesPerHour - 1)
        second_ok == t.s \in 0..(SecondsPerMinute - 1)
        hour24_ok == t.h \in 0..(HoursPerDay - 1)
        hour12_ok == t.h \in 1..NoonHour
        hour12 == (t.h % NoonHour) + (IF t.pm THEN NoonHour ELSE 0)
    IN  CASE t.fmt = "%H:%M" ->
                IF hour24_ok /\ minute_ok THEN Parsed(HM(t.h, t.m)) ELSE NotParsed
          [] t.fmt = "%H:%M:%S" ->
                IF hour24_ok /\ minute_ok /\ second_ok
                THEN Parsed(HMS(t.h, t.m, t.s)) ELSE NotParsed
          [] t.fmt = "%I:%M %p" ->
                IF hour12_ok /\ minute_ok THEN Parsed(HM(hour12, t.m)) ELSE NotParsed
          [] t.fmt = "%I:%M:%S %p" ->
                IF hour12_ok /\ minute_ok /\ second_ok
                THEN Parsed(HMS(hour12, t.m, t.s)) ELSE NotParsed
          [] OTHER -> NotParsed

\* an instant: a date and a second of that day
Instant(d, sec) == d * SecondsPerDay + sec

\* scheduled_time.strftime('%H:%M') of a time of day
HHMM(sec) == sec \div SecondsPerMinute

\* f"{report_name}_{time_str}"
DeliveryKey(report_name, sec) == <<report_name, HHMM(sec)>>

\* load_delivery_log: what read_file may return to a process, its cached copy
\* while that is fresh, the stored file otherwise
LoadDeliveryLog(cached, stored) ==
    IF cached.loaded THEN {cached.data, stored} ELSE {stored}

\* is_already_delivered_today if it never found the key
NeverAlreadyDelivered(log, today, report_name, sec) == FALSE

\* is_already_delivered_today on the loaded log
IsAlreadyDeliveredToday(log, today, report_name, sec) ==
    [day |-> today, key |-> DeliveryKey(report_name, sec)] \in log

\* should_check_now if the window had no end
ShouldCheckNowNoEnd(current, deadline) ==
    deadline - WindowMinutes * SecondsPerMinute <= current

\* should_check_now: window_start <= current_time <= window_end
ShouldCheckNow(current, deadline) ==
    /\ deadline - WindowMinutes * SecondsPerMinute <= current
    /\ current <= deadline

\* the loop if it ran over all reports, whatever their delivery_mode
RECURSIVE MatchingReportAnyMode(_, _, _)
MatchingReportAnyMode(rs, task_id, i) ==
    IF i > Len(ReportOrder) THEN {}
    ELSE IF rs[ReportOrder[i]].automatic_task_id = task_id
         THEN {ReportOrder[i]}
         ELSE MatchingReportAnyMode(rs, task_id, i + 1)

\* the loop over automatic_reports.items(): the first report in automatic
\* mode whose automatic_task_id is the row's task_id, as a set of 0 or 1 ids
RECURSIVE MatchingReport(_, _, _)
MatchingReport(rs, task_id, i) ==
    IF i > Len(ReportOrder) THEN {}
    ELSE IF /\ rs[ReportOrder[i]].delivery_mode = "automatic"
            /\ rs[ReportOrder[i]].automatic_task_id = task_id
         THEN {ReportOrder[i]}
         ELSE MatchingReport(rs, task_id, i + 1)

\* target_channel.startswith('C'): the channel field holds a channel id
LooksLikeChannelId(channel) == channel \in {"C0", "C1"}

\* deliver_report: whatever send_type1_message returns, the result says
\* success unless no channel is configured or the Slack client cannot be
\* built.
DeliverReport(report_config, env) ==
    LET target_channel == IF report_config.channel # "" THEN report_config.channel
                          ELSE env.default_channel
        channel_id == IF LooksLikeChannelId(target_channel)
                      THEN (IF env.default_channel # "" THEN target_channel ELSE "")
                      ELSE ChannelId(target_channel, env)
        result == SendType1Message(report_config.thread_content,
                                   report_config.thread_ts, env)
    IN  IF target_channel = ""
        THEN SendResult(FALSE, "No channel configured", FALSE, "")
        ELSE IF channel_id = ""
        THEN SendResult(FALSE, "Could not initialize SlackDeliverySimple", FALSE, "")
        ELSE SendResult(TRUE, "", result.posted, result.thread_ts)

\* get_automatic_delivery_enabled if the stored value were not consulted
KillSwitchIgnored(s) == TRUE

\* get_automatic_delivery_enabled: no settings file means the default, False
GetAutomaticDeliveryEnabled(s) == s = "enabled"

AutoResult(task, rid, status, sec, err) ==
    [task_name |-> task, report_id |-> rid, status |-> status,
     scheduled_time |-> sec, error |-> err]

\* the start of an invocation if a lock let only one invocation run at a time
AutoStartExclusive(p) ==
    /\ \A q \in Procs : pc[q] = "idle"
    /\ cycles < MaxCycles
    /\ cycles' = cycles + 1
    /\ results' = [results EXCEPT ![p] = << >>]
    /\ ctime' = [ctime EXCEPT ![p] =
                    [day |-> day, minutes |-> CurrentMinutesTotal(now),
                     cycle |-> cycles + 1]]
    /\ pc' = [pc EXCEPT ![p] = "auto_loop"]
    /\ IF ~GetAutomaticDeliveryEnabled(settings)
       THEN /\ queue' = [queue EXCEPT ![p] = << >>]
            /\ UNCHANGED cache
       ELSE /\ cache' = [cache EXCEPT ![p] = reports]
            /\ IF \A r \in ReportIds : reports[r].delivery_mode # "automatic"
               THEN queue' = [queue EXCEPT ![p] = << >>]
               ELSE queue' = [queue EXCEPT ![p] = sheet]
    /\ UNCHANGED <<reports, logs, day, now, sends, res, autoLog, settings, sheet,
                   alog, outcomes, probe>>

\* process_automatic_deliveries up to the loop over the sheet's rows: the
\* kill switch, the reports in automatic mode, the rows of the status sheet
AutoStart(p) ==
    /\ pc[p] = "idle"
    /\ cycles < MaxCycles
    /\ cycles' = cycles + 1
    /\ results' = [results EXCEPT ![p] = << >>]
    /\ ctime' = [ctime EXCEPT ![p] =
                    [day |-> day, minutes |-> CurrentMinutesTotal(now),
                     cycle |-> cycles + 1]]
    /\ pc' = [pc EXCEPT ![p] = "auto_loop"]
    /\ IF ~GetAutomaticDeliveryEnabled(settings)
       THEN /\ queue' = [queue EXCEPT ![p] = << >>]
            /\ UNCHANGED cache
       ELSE /\ cache' = [cache EXCEPT ![p] = reports]
            /\ IF \A r \in ReportIds : reports[r].delivery_mode # "automatic"
               THEN queue' = [queue EXCEPT ![p] = << >>]
               ELSE queue' = [queue EXCEPT ![p] = sheet]
    /\ UNCHANGED <<reports, logs, day, now, sends, res, autoLog, settings, sheet,
                   alog, outcomes, probe>>

\* the status test if every status passed it
NeverNotReady(status) == FALSE

\* status != DELIVERY_CONFIG['completed_status']
NotReady(status) == status # CompletedStatus

\* results.append(...), kept with the invocation that appended it
Outcome(cyc, d, t, r) ==
    [cycle |-> cyc, day |-> d, at |-> t, task_name |-> r.task_name,
     status |-> r.status, scheduled_time |-> r.scheduled_time]

\* One pass of the loop body up to the delivery: the match, the parse, the
\* dedup check, the window, the status, and deliver_report.
AutoEvaluate(p) ==
    /\ pc[p] = "auto_loop"
    /\ queue[p] # << >>
    /\ LET row == Head(queue[p])
           task_id == row.task_id
           match == MatchingReport(cache[p], task_id, 1)
           matching_report_id == CHOOSE r \in match : TRUE
           scheduled_time == ParseScheduledTime(row.delivery_time)
           skip == /\ Pop(p)
                   /\ UNCHANGED <<sends, res, pc, results, outcomes>>
           append(status, err) ==
               LET r == AutoResult(task_id, matching_report_id, status,
                                   scheduled_time.sec, err)
               IN  /\ results' = [results EXCEPT ![p] = Append(@, r)]
                   /\ outcomes' = Append(outcomes,
                                         Outcome(ctime[p].cycle, day, now, r))
       IN  IF match = {}
           THEN skip /\ UNCHANGED alog
           ELSE IF ~scheduled_time.ok
           THEN skip /\ UNCHANGED alog
           ELSE \E log \in LoadDeliveryLog(alog[p], autoLog) :
                /\ alog' = [alog EXCEPT ![p] = Loaded(log)]
                /\ IF IsAlreadyDeliveredToday(log, day, task_id, scheduled_time.sec)
                   THEN skip
                   ELSE IF ~ShouldCheckNow(Instant(day, now),
                                           Instant(day, scheduled_time.sec))
                   THEN skip
                   ELSE IF NotReady(row.status)
                   THEN /\ append("not_ready", "")
                        /\ Pop(p)
                        /\ UNCHANGED <<sends, res, pc>>
                   ELSE \E env \in AutoEnvs :
                          LET delivery_result ==
                                  DeliverReport(cache[p][matching_report_id], env)
                          IN  /\ sends' = Append(sends,
                                     SendRecord("automatic", task_id,
                                                scheduled_time.sec, ctime[p].cycle,
                                                day, now, delivery_result))
                              /\ res' = [res EXCEPT ![p] = delivery_result]
                              /\ IF delivery_result.success
                                 THEN /\ pc' = [pc EXCEPT ![p] = "auto_record"]
                                      /\ UNCHANGED <<queue, results, outcomes>>
                                 ELSE /\ append("failed", delivery_result.error)
                                      /\ Pop(p)
                                      /\ UNCHANGED pc
    /\ UNCHANGED <<reports, logs, day, now, cycles, cache, ctime, autoLog,
                   settings, sheet, probe>>

\* mark_as_delivered: the entry is added to the loaded log, the whole log is
\* saved, and the outcome is mirrored into the Delivery Log; then the result
\* is appended.
MarkAsDelivered(log, today, report_name, sec) ==
    log \cup {[day |-> today, key |-> DeliveryKey(report_name, sec)]}

AutoRecord(p) ==
    /\ pc[p] = "auto_record"
    /\ \E log \in LoadDeliveryLog(alog[p], autoLog) :
       LET row == Head(queue[p])
           sec == ParseScheduledTime(row.delivery_time).sec
           saved == MarkAsDelivered(log, day, row.task_id, sec)
           rid == CHOOSE r \in MatchingReport(cache[p], row.task_id, 1) : TRUE
       IN  /\ autoLog' = saved
           /\ alog' = [alog EXCEPT ![p] = Loaded(saved)]
           /\ logs' = AddLogEntry(logs,
                         LogEntry(day, DeliveryKey(row.task_id, sec),
                                  IF res[p].success THEN "success" ELSE "failed",
                                  HHMM(sec), ""))
           /\ results' = [results EXCEPT ![p] =
                             Append(@, AutoResult(row.task_id, rid, "delivered",
                                                  sec, ""))]
           /\ outcomes' = Append(outcomes,
                                 Outcome(ctime[p].cycle, day, now,
                                         AutoResult(row.task_id, rid, "delivered",
                                                    sec, "")))
    /\ Pop(p)
    /\ pc' = [pc EXCEPT ![p] = "auto_loop"]
    /\ res' = [res EXCEPT ![p] = NoResult]
    /\ UNCHANGED <<reports, day, now, cycles, sends, cache, ctime, settings,
                   sheet, probe>>

\* send_automatic_reports after process_automatic_deliveries returned: a
\* Delivery Log entry for every delivered and every failed result
RECURSIVE LogResults(_, _, _)
LogResults(lg, rs, d) ==
    IF rs = << >> THEN lg
    ELSE LET r == Head(rs)
         IN  IF r.status \in {"delivered", "failed"}
             THEN LogResults(AddLogEntry(lg,
                                 LogEntry(d, r.task_name, r.status, r.scheduled_time,
                                          r.error)),
                             Tail(rs), d)
             ELSE LogResults(lg, Tail(rs), d)

AutoFinish(p) ==
    /\ pc[p] = "auto_loop"
    /\ queue[p] = << >>
    /\ logs' = LogResults(logs, results[p], day)
    /\ pc' = [pc EXCEPT ![p] = "idle"]
    /\ cache' = [cache EXCEPT ![p] = << >>]
    /\ alog' = [alog EXCEPT ![p] = NotLoaded]
    /\ ctime' = [ctime EXCEPT ![p] = NoTime]
    /\ UNCHANGED <<reports, day, now, cycles, sends, queue, res, autoLog,
                   settings, sheet, results, outcomes, probe>>

\* --------------------------------------------------------- the surroundings
\* the work on a task is finished: its status cell becomes the completed one
SheetUpdate ==
    /\ Idle
    /\ \E i \in DOMAIN sheet :
          /\ sheet[i].status # CompletedStatus
          /\ sheet' = [sheet EXCEPT ![i].status = CompletedStatus]
    /\ UNCHANGED <<reports, logs, day, now, cycles, sends, pc, cache, queue, ctime,
                   res, autoLog, settings, results, alog, outcomes, probe>>

\* the kill switch is flipped in the settings page
SetAutomaticDeliveryEnabled ==
    /\ Idle
    /\ \E v \in {"enabled", "disabled"} : v # settings /\ settings' = v
    /\ UNCHANGED <<reports, logs, day, now, cycles, sends, pc, cache, queue, ctime,
                   res, autoLog, sheet, results, alog, outcomes, probe>>

\* ------------------------------------------------- the automatic dispatcher
AutoClock ==
    { HMS(17, 24, 59), HM(17, 25), HM(17, 28), HM(17, 30), HMS(17, 30, 30) }

Row(task, status, t) == [task_id |-> task, status |-> status, delivery_time |-> t]

AutoSheets ==
    { << Row("T-100", s1, DeliveryTime("%H:%M", 17, 30, 0, FALSE)),
         Row("T-100", s2, DeliveryTime("%I:%M %p", 5, 25, 0, TRUE)),
         Row("T-999", CompletedStatus, DeliveryTime("%H:%M", 17, 30, 0, FALSE)) >>
      : s1 \in {"in_progress", CompletedStatus},
        s2 \in {"in_progress", CompletedStatus} }

AutoReports ==
    { [r \in ReportIds |->
          IF r = "RPT_00001"
          THEN NewReport("T-100", "automatic", FALSE, Time(9, 0), "T-100", ch, "")
          ELSE NewReport("other", "manual", FALSE, Time(9, 0), "T-999", "", "")]
      : ch \in {"", "general"} }

InitAuto ==
    /\ reports \in AutoReports
    /\ logs = << >>
    /\ day = 1
    /\ now \in AutoClock
    /\ cycles = 0
    /\ sends = << >>
    /\ outcomes = << >>
    /\ autoLog = {}
    /\ settings \in {"enabled", "disabled", "missing"}
    /\ sheet \in AutoSheets
    /\ probe = NoProbe
    /\ InitLocal

NextAuto ==
    \/ \E p \in Cron : Idle /\ AutoStart(p)
    \/ \E p \in Procs : AutoEvaluate(p)
    \/ \E p \in Procs : AutoRecord(p)
    \/ \E p \in Procs : AutoFinish(p)
    \/ SheetUpdate
    \/ SetAutomaticDeliveryEnabled
    \/ Tick(AutoClock)

SpecAuto == InitAuto /\ [][NextAuto]_vars

\* ------------------------------------------- automatic dispatcher: claims
AutomaticSends == {i \in DOMAIN sends : sends[i].kind = "automatic"}

\* the entries mark_as_delivered wrote to the Delivery Log under a key
MarkedLogs(d, key) ==
    {i \in DOMAIN logs :
        logs[i].status = "success" /\ logs[i].day = d /\ logs[i].report_id = key}

RowIsCandidate(p) ==
    /\ pc[p] = "auto_loop"
    /\ queue[p] # << >>
    /\ \E r \in ReportIds :
          /\ cache[p] # << >>
          /\ cache[p][r].delivery_mode = "automatic"
          /\ cache[p][r].automatic_task_id = Head(queue[p]).task_id
    /\ ParseScheduledTime(Head(queue[p]).delivery_time).ok
    /\ LET sec == ParseScheduledTime(Head(queue[p]).delivery_time).sec
       IN  /\ sec - WindowMinutes * SecondsPerMinute <= now
           /\ now <= sec
           /\ [day |-> day,
               key |-> <<Head(queue[p]).task_id, sec \div SecondsPerMinute>>]
                 \notin autoLog

Steps(p) == pc'[p] # pc[p] \/ queue'[p] # queue[p]

\* C4, the row is not complete: a not_ready outcome, no send, no dedup key
NotReadyIsOnlyReported(p) ==
    (RowIsCandidate(p) /\ Steps(p) /\ Head(queue[p]).status # CompletedStatus)
        => /\ Len(outcomes') = Len(outcomes) + 1
           /\ outcomes'[Len(outcomes')].status = "not_ready"
           /\ outcomes'[Len(outcomes')].task_name = Head(queue[p]).task_id
           /\ results'[p] = Append(results[p], results'[p][Len(results'[p])])
           /\ results'[p][Len(results'[p])].status = "not_ready"
           /\ UNCHANGED <<sends, autoLog, logs, reports>>

\* C4, the row is complete: the report is sent, whatever earlier cycles found
CompleteIsDelivered(p) ==
    (RowIsCandidate(p) /\ Steps(p) /\ Head(queue[p]).status = CompletedStatus)
        => /\ Len(sends') = Len(sends) + 1
           /\ sends'[Len(sends')].kind = "automatic"
           /\ sends'[Len(sends')].id = Head(queue[p]).task_id
           /\ sends'[Len(sends')].success => pc'[p] = "auto_record"

\* C4, the delivery is recorded: the dedup key is written and the outcome is
\* delivered
DeliveryIsMarked(p) ==
    (pc[p] = "auto_record" /\ Steps(p))
        => /\ Len(outcomes') = Len(outcomes) + 1
           /\ outcomes'[Len(outcomes')].status = "delivered"
           /\ [day |-> day,
               key |-> <<sends[Len(sends)].id,
                         sends[Len(sends)].scheduled_time \div SecondsPerMinute>>]
                 \in autoLog'

C5_DisabledDoesNothing ==
    [][(/\ settings = "disabled"
        /\ \E p \in Procs : pc[p] # "idle" \/ pc'[p] # "idle")
          => /\ UNCHANGED <<sends, logs, autoLog, reports, outcomes, sheet>>
             /\ \A p \in Procs : queue'[p] = << >> /\ results'[p] = << >>]_vars

\* a cycle runs with the switch disabled while a matched, complete row is
\* inside its window and has no dedup record
C5_Witness ==
    \E p \in Procs :
        /\ pc[p] = "auto_loop"
        /\ settings = "disabled"
        /\ reports["RPT_00001"].delivery_mode = "automatic"
        /\ sheet # << >>
        /\ sheet[1].task_id = reports["RPT_00001"].automatic_task_id
        /\ sheet[1].status = CompletedStatus
        /\ now = HM(17, 28)
        /\ autoLog = {}

Quiet ==
    /\ reports = << >>
    /\ logs = << >>
    /\ day = 1
    /\ now = 0
    /\ cycles = 0
    /\ sends = << >>
    /\ outcomes = << >>
    /\ autoLog = {}
    /\ settings = "missing"
    /\ sheet = << >>
    /\ InitLocal

quietVars == <<reports, logs, day, now, cycles, sends, pc, cache, queue, ctime,
               res, autoVars>>

\* ------------------------------------------------------- one send of Slack
MessageKinds ==
    { Message("", ratio, contains, kind[1], kind[2]) :
        ratio \in {40, ThreadThreshold, ThreadThreshold + 1},
        contains \in BOOLEAN,
        kind \in { <<"", FALSE>>, <<"channel_join", FALSE>>, <<"", TRUE>> } }

\* conversations_history gives every message its own ts
Histories ==
    UNION { { [i \in 1..n |-> [h[i] EXCEPT !.ts = IF i = 1 THEN "ts1"
                                                  ELSE IF i = 2 THEN "ts2"
                                                  ELSE "ts3"]]
              : h \in [1..n -> MessageKinds] }
            : n \in 0..MaxHistory }

SendArgs ==
    [ thread_content : {"", "topic"}, thread_ts : {"", "ts9"},
      history : Histories, history_ok : BOOLEAN, api_ok : BOOLEAN,
      file_exists : BOOLEAN ]

SendEnv(a) == Env("C0", {"general"}, a.history, a.history_ok, a.api_ok)

InitSend ==
    /\ probe \in { [op |-> "none", args |-> a, result |-> NoResult] : a \in SendArgs }
    /\ Quiet

CallSendType1Message ==
    /\ probe.op = "none"
    /\ probe' = [probe EXCEPT
                    !.op = "send_type1_message",
                    !.result = SendType1Message(probe.args.thread_content,
                                                probe.args.thread_ts,
                                                SendEnv(probe.args))]
    /\ UNCHANGED quietVars

CallSendType1MessageWithFile ==
    /\ probe.op = "none"
    /\ probe' = [probe EXCEPT
                    !.op = "send_type1_message_with_file",
                    !.result = SendType1MessageWithFile(probe.args.thread_content,
                                                        probe.args.thread_ts,
                                                        probe.args.file_exists,
                                                        SendEnv(probe.args))]
    /\ UNCHANGED quietVars

NextSend == CallSendType1Message \/ CallSendType1MessageWithFile

SpecSend == InitSend /\ [][NextSend]_vars

\* no message of the history clears the match threshold
NoMessageClears(history) ==
    \A i \in DOMAIN history :
        \/ history[i].blank
        \/ history[i].subtype = "channel_join"
        \/ ~history[i].contains /\ history[i].ratio <= 70

\* C7: a send with a non-empty thread hint, no thread anchor and no channel
\* message above the threshold fails with an error and posts nothing, neither
\* a reply nor a new top-level message.
C7_UnmatchedHintFails ==
    (/\ probe.op \in {"send_type1_message", "send_type1_message_with_file"}
     /\ probe.args.thread_content # ""
     /\ probe.args.thread_ts = ""
     /\ ~probe.args.history_ok \/ NoMessageClears(probe.args.history))
        => /\ ~probe.result.success
           /\ probe.result.error # ""
           /\ ~probe.result.posted

\* a send with a file, Slack answering, whose hint's best candidate scores
\* exactly the threshold
C7_Witness ==
    /\ probe.op = "send_type1_message_with_file"
    /\ probe.args.thread_content = "topic"
    /\ probe.args.thread_ts = ""
    /\ probe.args.history_ok /\ probe.args.api_ok /\ probe.args.file_exists
    /\ Len(probe.args.history) = MaxHistory
    /\ NoMessageClears(probe.args.history)
    /\ \E i \in DOMAIN probe.args.history :
          /\ probe.args.history[i].ratio = 70
          /\ ~probe.args.history[i].blank
          /\ probe.args.history[i].subtype = ""
    /\ probe.result.error = "thread_not_found"

\* --------------------------------------------------------- the due test
DueHours == {0, 9, 23}
DueMinutes == {0, 10, 14, 15, 16, 45, 59}

DueArgs ==
    [ now : {m * SecondsPerMinute : m \in 0..(MinutesPerDay - 1)},
      schedule_time : {Time(h, m) : h \in DueHours, m \in DueMinutes} ]

InitDue ==
    /\ probe \in { [op |-> "none", args |-> a, result |-> FALSE] : a \in DueArgs }
    /\ Quiet

\* the due test of send_scheduled_reports on one current time and one
\* schedule_time
CheckDue ==
    /\ probe.op = "none"
    /\ probe' = [probe EXCEPT
                    !.op = "due",
                    !.result = IsDue(CurrentMinutesTotal(probe.args.now),
                                     ScheduledMinutesTotal(probe.args.schedule_time))]
    /\ UNCHANGED quietVars

NextDue == CheckDue

SpecDue == InitDue /\ [][NextDue]_vars

\* the distance of two minutes of the day on the 1440-minute circle
CircularDistance(a, b) ==
    LET forward == (a - b) % 1440
        backward == (b - a) % 1440
    IN  IF forward < backward THEN forward ELSE backward

\* C10: the report is due exactly when the circular distance between the
\* current minute of the day and the scheduled one is at most 15, also across
\* midnight.
C10_DueIffCircularDistanceWithinTolerance ==
    probe.op = "due"
        => (probe.result <=>
              CircularDistance(probe.args.now \div 60,
                               probe.args.schedule_time.h * 60
                                 + probe.args.schedule_time.m) <= 15)

\* 23:50 against a schedule_time of 00:00: due across midnight
C10_Witness ==
    /\ probe.op = "due"
    /\ probe.args.now = HM(23, 50)
    /\ probe.args.schedule_time = Time(0, 0)
    /\ probe.result = TRUE

\* ------------------------------------------------ overlapping invocations
\* Two invocations at once: the trigger starts one while another still runs.
OverlapReports ==
    [r \in ReportIds |->
        IF r = "RPT_00001"
        THEN NewReport("T-100", "automatic", FALSE, Time(9, 0), "T-100", "", "")
        ELSE NewReport("daily", "scheduled", TRUE, Time(17, 30), "", "", "")]

OverlapSheet ==
    << Row("T-100", CompletedStatus, DeliveryTime("%H:%M", 17, 30, 0, FALSE)) >>

InitOverlap ==
    /\ reports = OverlapReports
    /\ logs = << >>
    /\ day = 1
    /\ now \in {HM(17, 28), HM(17, 30)}
    /\ cycles = 0
    /\ sends = << >>
    /\ outcomes = << >>
    /\ autoLog = {}
    /\ settings = "enabled"
    /\ sheet = OverlapSheet
    /\ probe = NoProbe
    /\ InitLocal

NextOverlap ==
    \/ \E p \in Procs : AutoStart(p)
    \/ \E p \in Procs : AutoEvaluate(p)
    \/ \E p \in Procs : AutoRecord(p)
    \/ \E p \in Procs : AutoFinish(p)
    \/ \E p \in Procs : SchedStart(p)
    \/ \E p \in Procs : SchedEvaluate(p)
    \/ \E p \in Procs : SchedRecord(p)
    \/ \E p \in Procs : SchedFinish(p)

SpecOverlap == InitOverlap /\ [][NextOverlap]_vars

\* C9, automatic dispatcher: q has sent the row's report and not yet written
\* the dedup record; p reaches the same row and sends it too
SecondAutomaticSendGoesOut(p, q) ==
    (/\ p # q
     /\ pc[q] = "auto_record"
     /\ pc[p] = "auto_loop" /\ queue[p] # << >>
     /\ Head(queue[p]) = Head(queue[q])
     /\ Head(queue[p]).status = CompletedStatus
     /\ now \in HM(17, 25)..HM(17, 30)
     /\ [day |-> day, key |-> <<"T-100", 17 * MinutesPerHour + 30>>] \notin autoLog
     /\ Steps(p))
        => /\ Len(sends') = Len(sends) + 1
           /\ sends'[Len(sends')].kind = "automatic"
           /\ sends'[Len(sends')].id = Head(queue[p]).task_id
           /\ sends'[Len(sends')].scheduled_time = HM(17, 30)

\* C9, scheduled dispatcher: q has sent the report and not yet recorded it;
\* p reaches the same report and sends it too
SecondScheduledSendGoesOut(p, q) ==
    (/\ p # q
     /\ pc[q] = "sched_record"
     /\ pc[p] = "sched_loop" /\ queue[p] # << >>
     /\ Head(queue[p]) = Head(queue[q])
     /\ reports[Head(queue[p])].last_sent_date # day
     /\ Steps(p))
        => /\ Len(sends') = Len(sends) + 1
           /\ sends'[Len(sends')].kind = "scheduled"
           /\ sends'[Len(sends')].id = Head(queue[p])

\* C9, no lock: while q stands between its send and its write of the dedup
\* record, a second invocation can start, and one that has reached the same
\* row can take its step
SecondInvocationIsNotHeldBack(p, q) ==
    (p # q /\ pc[q] = "auto_record")
        => /\ (pc[p] = "idle" /\ cycles < MaxCycles) => ENABLED AutoStart(p)
           /\ (pc[p] = "auto_loop" /\ queue[p] # << >>) => ENABLED AutoEvaluate(p)

\* C9: of two overlapping invocations that both pass the dedup check for a
\* report before either has written the dedup record, both send the report;
\* no lock and no compare-and-swap stops the second.
C9_OverlappingInvocationsBothSend ==
    /\ [](\A p, q \in Procs : SecondInvocationIsNotHeldBack(p, q))
    /\ [][\A p, q \in Procs : /\ SecondAutomaticSendGoesOut(p, q)
                              /\ SecondScheduledSendGoesOut(p, q)]_vars

\* the double send: both invocations have posted the same report for the same
\* deadline and neither has written the dedup record yet
C9_Witness ==
    /\ pc["p1"] = "auto_record" /\ pc["p2"] = "auto_record"
    /\ autoLog = {}
    /\ Cardinality({i \in AutomaticSends :
                       /\ sends[i].id = "T-100" /\ sends[i].day = day
                       /\ sends[i].scheduled_time = HM(17, 30)
                       /\ sends[i].posted}) = 2
    /\ \E i, j \in AutomaticSends : sends[i].cycle # sends[j].cycle

\* ------------------------------------------------------ the thread resolver
ThreadArgs ==
    [ thread_content : {"", "topic"}, history : Histories, history_ok : BOOLEAN ]

InitThread ==
    /\ probe \in { [op |-> "none", args |-> a,
                    result |-> [thread_ts |-> "", history_read |-> FALSE]]
                   : a \in ThreadArgs }
    /\ Quiet

\* one call of _find_matching_thread
CallFindMatchingThread ==
    /\ probe.op = "none"
    /\ probe' = [probe EXCEPT
                    !.op = "_find_matching_thread",
                    !.result =
                        [thread_ts |->
                             FindMatchingThread(probe.args.thread_content,
                                 Env("C0", {"general"}, probe.args.history,
                                     probe.args.history_ok, TRUE)),
                         history_read |-> ReadsHistory(probe.args.thread_content)]]
    /\ UNCHANGED quietVars

NextThread == CallFindMatchingThread

SpecThread == InitThread /\ [][NextThread]_vars

\* the similarity score of a message, in percent: the ratio, raised to 80 when
\* one text contains the other
ScoreOf(m) == IF m.contains /\ m.ratio < 80 THEN 80 ELSE m.ratio

Candidates(history) ==
    {i \in DOMAIN history : ~history[i].blank /\ history[i].subtype # "channel_join"}

\* C11: for an empty hint the resolver returns null and does not read the
\* channel history; for a non-empty hint it returns a message's anchor only
\* if that message scores strictly above 0.7, and null when the best score is
\* 0.7 or lower.
C11_ThreadResolverThreshold ==
    probe.op = "_find_matching_thread"
        => /\ probe.args.thread_content = ""
                => probe.result.thread_ts = "" /\ ~probe.result.history_read
           /\ probe.result.thread_ts # ""
                => \E i \in Candidates(probe.args.history) :
                      /\ probe.args.history[i].ts = probe.result.thread_ts
                      /\ ScoreOf(probe.args.history[i]) > 70
           /\ (\A i \in Candidates(probe.args.history) :
                  ScoreOf(probe.args.history[i]) <= 70)
                => probe.result.thread_ts = ""

\* the best candidate scores exactly 0.7 and the resolver returns null
C11_Witness ==
    /\ probe.op = "_find_matching_thread"
    /\ probe.args.thread_content = "topic"
    /\ probe.args.history_ok
    /\ probe.result.history_read
    /\ \E i \in Candidates(probe.args.history) :
          ScoreOf(probe.args.history[i]) = 70
    /\ \A i \in Candidates(probe.args.history) :
          ScoreOf(probe.args.history[i]) <= 70
    /\ probe.result.thread_ts = ""

\* --------------------------------------------------- the recipient resolver
UserKinds ==
    { <<TRUE, TRUE, ExactScore>>, <<FALSE, TRUE, 50>>, <<FALSE, TRUE, 90>>,
      <<FALSE, FALSE, 50>>, <<FALSE, FALSE, FuzzyThreshold>>,
      <<FALSE, FALSE, FuzzyThreshold + 1>> }

\* users_list gives every member its own id
Directories ==
    UNION { { [i \in 1..n |-> User(i, k[i][1], k[i][2], k[i][3])]
              : k \in [1..n -> UserKinds] }
            : n \in 0..MaxUsers }

ResolveArgs == [ users : Directories, api_ok : BOOLEAN ]

InitResolve ==
    /\ probe \in { [op |-> "none", args |-> a, result |-> NoMatch] : a \in ResolveArgs }
    /\ Quiet

\* one call of _find_user_by_name
CallFindUserByName ==
    /\ probe.op = "none"
    /\ probe' = [probe EXCEPT !.op = "_find_user_by_name",
                              !.result = FindUserByName(probe.args.users)]
    /\ UNCHANGED quietVars

\* one call of send_type1_message for a new top-level message
CallSendWithMention ==
    /\ probe.op = "none"
    /\ probe' = [probe EXCEPT
                    !.op = "send_type1_message",
                    !.result = Type1Delivery(probe.args.users, "", "",
                                   Env("C0", {"general"}, << >>, TRUE,
                                       probe.args.api_ok))]
    /\ UNCHANGED quietVars

NextResolve == CallFindUserByName \/ CallSendWithMention

SpecResolve == InitResolve /\ [][NextResolve]_vars

\* C12: when the name equals a field of some directory entry the resolver
\* returns an exact match with confidence 1.0; it returns a substring match
\* only when no entry matches exactly, and a fuzzy match only when no entry
\* matches exactly or by substring.
C12_ExactMatchWins ==
    probe.op = "_find_user_by_name"
        => LET users == probe.args.users
               someExact == \E i \in DOMAIN users : users[i].exact
               someSubstring == \E i \in DOMAIN users : users[i].substring
           IN  /\ someExact => /\ probe.result.matched_field = "exact_match"
                               /\ probe.result.score = 100
               /\ probe.result.matched_field = "substring_match" => ~someExact
               /\ probe.result.matched_field = "fuzzy_match"
                     => ~someExact /\ ~someSubstring

NothingMatches(users) ==
    \A i \in DOMAIN users :
        ~users[i].exact /\ ~users[i].substring /\ users[i].ratio <= 80

\* C13: a fuzzy match is returned only for a score strictly above 0.8; when
\* no entry matches exactly, by substring or above 0.8 the resolution fails,
\* the mention is the raw name, and the message is sent all the same.
C13_FuzzyThresholdAndFallback ==
    /\ probe.op = "_find_user_by_name"
          => /\ probe.result.matched_field = "fuzzy_match"
                   => /\ probe.result.score > 80
                      /\ \E i \in DOMAIN probe.args.users :
                            /\ probe.args.users[i].id = probe.result.user
                            /\ probe.args.users[i].ratio = probe.result.score
             /\ NothingMatches(probe.args.users) => ~probe.result.found
    /\ (probe.op = "send_type1_message" /\ NothingMatches(probe.args.users))
          => /\ ~probe.result.receiver_mention.resolved
             /\ probe.args.api_ok
                   => probe.result.result.success /\ probe.result.result.posted

\* the nearest entry scores exactly 0.8: the mention stays the raw name and
\* the message is posted
C13_Witness ==
    /\ probe.op = "send_type1_message"
    /\ probe.args.api_ok
    /\ probe.args.users # << >>
    /\ NothingMatches(probe.args.users)
    /\ \E i \in DOMAIN probe.args.users : probe.args.users[i].ratio = 80
    /\ ~probe.result.receiver_mention.resolved
    /\ probe.result.result.posted

\* ------------------------------- one report with two deadlines in a minute
KeyReports ==
    [r \in ReportIds |->
        IF r = "RPT_00001"
        THEN NewReport("T-100", "automatic", FALSE, Time(9, 0), "T-100", "general", "")
        ELSE NewReport("other", "manual", FALSE, Time(9, 0), "T-999", "", "")]

KeySheets ==
    { << Row("T-100", s1, DeliveryTime("%H:%M", 17, 30, 0, FALSE)),
         Row("T-100", s2, DeliveryTime("%H:%M:%S", 17, 30, 30, FALSE)),
         Row("T-100", s3, DeliveryTime("%I:%M %p", 5, 25, 0, TRUE)) >>
      : s1 \in {"in_progress", CompletedStatus},
        s2 \in {"in_progress", CompletedStatus},
        s3 \in {"in_progress", CompletedStatus} }

InitKey ==
    /\ reports = KeyReports
    /\ logs = << >>
    /\ day = 1
    /\ now \in AutoClock
    /\ cycles = 0
    /\ sends = << >>
    /\ outcomes = << >>
    /\ autoLog = {}
    /\ settings = "enabled"
    /\ sheet \in KeySheets
    /\ probe = NoProbe
    /\ InitLocal

NextKey ==
    \/ \E p \in Cron : Idle /\ AutoStart(p)
    \/ \E p \in Procs : AutoEvaluate(p)
    \/ \E p \in Procs : AutoRecord(p)
    \/ \E p \in Procs : AutoFinish(p)
    \/ SheetUpdate
    \/ Tick(AutoClock)

SpecKey == InitKey /\ [][NextKey]_vars

\* the row a process is looking at is matched, parses, and is inside its
\* firing window; no delivery for this very deadline was recorded today
RowWithUnrecordedDeadline(p) ==
    /\ pc[p] = "auto_loop"
    /\ queue[p] # << >>
    /\ \E r \in ReportIds :
          /\ cache[p] # << >>
          /\ cache[p][r].delivery_mode = "automatic"
          /\ cache[p][r].automatic_task_id = Head(queue[p]).task_id
    /\ ParseScheduledTime(Head(queue[p]).delivery_time).ok
    /\ LET sec == ParseScheduledTime(Head(queue[p]).delivery_time).sec
       IN  /\ sec - WindowMinutes * SecondsPerMinute <= now
           /\ now <= sec
           /\ ~\E i \in AutomaticSends :
                 /\ sends[i].success
                 /\ sends[i].day = day
                 /\ sends[i].id = Head(queue[p]).task_id
                 /\ sends[i].scheduled_time = sec

\* C14: the dedup key written for an automatic delivery is the report's name
\* and the deadline's HH:MM in the current day's bucket; a record under one
\* deadline's key never makes a row of the same report with a different
\* deadline be skipped that day.
C14_DeadlinesAreTrackedIndependently ==
    [][\A p \in Procs :
          /\ (pc[p] = "auto_record" /\ Steps(p))
                => LET d == sends[Len(sends)]
                   IN  autoLog' = autoLog \cup
                           {[day |-> day,
                             key |-> <<d.id, d.scheduled_time \div SecondsPerMinute>>]}
          /\ (RowWithUnrecordedDeadline(p) /\ Steps(p))
                => (sends' # sends \/ results'[p] # results[p])]_vars

\* ------------------------------------------ transport errors in a cycle
\* p's step is a send of the automatic dispatcher that met a Slack API which
\* refuses the post, with the channel in order
AutomaticSendMeetsTransportError(p) ==
    /\ pc[p] = "auto_loop" /\ queue[p] # << >> /\ Steps(p)
    /\ Len(sends') = Len(sends) + 1
    /\ sends'[Len(sends')].kind = "automatic"
    /\ \E env \in AutoEnvs : \E rid \in MatchingReport(cache[p], Head(queue[p]).task_id, 1) :
          /\ ~env.api_ok
          /\ sends'[Len(sends')].success = DeliverReport(cache[p][rid], env).success
          /\ sends'[Len(sends')].posted = DeliverReport(cache[p][rid], env).posted

\* C15: a transport error while delivering one report is recorded as a
\* failed outcome for that report in the Delivery Log and the remaining
\* reports of the cycle are still evaluated, in the scheduled and in the
\* automatic dispatcher.
C15_TransportErrorIsFailedAndLoopGoesOn ==
    [][\A p \in Procs :
          /\ (pc[p] = "sched_record" /\ Steps(p) /\ res[p].error = "slack_api_error")
                => /\ Len(logs') = Len(logs) + 1
                   /\ logs'[Len(logs')].status = "failed"
                   /\ logs'[Len(logs')].report_id = Head(queue[p])
                   /\ pc'[p] = "sched_loop"
                   /\ queue'[p] = Tail(queue[p])
          /\ AutomaticSendMeetsTransportError(p)
                => /\ Len(results'[p]) = Len(results[p]) + 1
                   /\ results'[p][Len(results'[p])].status = "failed"
                   /\ results'[p][Len(results'[p])].task_name = Head(queue[p]).task_id
                   /\ pc'[p] = "auto_loop"
                   /\ queue'[p] = Tail(queue[p])
          /\ (pc[p] = "auto_loop" /\ queue[p] = << >> /\ Steps(p))
                => \A i \in DOMAIN results[p] :
                      results[p][i].status = "failed"
                          => \E j \in DOMAIN logs' :
                                /\ j > Len(logs)
                                /\ logs'[j].status = "failed"
                                /\ logs'[j].report_id = results[p][i].task_name]_vars

\* the same for the scheduled dispatcher alone
ScheduledTransportErrorIsFailedAndLoopGoesOn ==
    [][\A p \in Procs :
          (pc[p] = "sched_record" /\ Steps(p) /\ res[p].error = "slack_api_error")
                => /\ Len(logs') = Len(logs) + 1
                   /\ logs'[Len(logs')].status = "failed"
                   /\ logs'[Len(logs')].report_id = Head(queue[p])
                   /\ pc'[p] = "sched_loop"
                   /\ queue'[p] = Tail(queue[p])]_vars

\* ------------------------------------------------- times that do not parse
ParseClock == { HM(17, 28), HM(17, 30) }

\* "17.30" has none of the four formats; "17:30 PM" has the 12-hour format
\* and an hour strptime rejects
UnparseableTimes ==
    { DeliveryTime("", 17, 30, 0, FALSE), DeliveryTime("%I:%M %p", 17, 30, 0, TRUE) }

ParseReports ==
    { [r \in ReportIds |->
          IF r = "RPT_00001"
          THEN NewReport("daily", "scheduled", TRUE, t, "", "", "")
          ELSE NewReport("T-100", "automatic", FALSE, Time(9, 0), "T-100",
                         "general", "")]
      : t \in {BadTime, Time(17, 30)} }

ParseSheets ==
    { << Row("T-100", CompletedStatus, t),
         Row("T-100", s, DeliveryTime("%H:%M", 17, 30, 0, FALSE)) >>
      : t \in UnparseableTimes \cup {DeliveryTime("%H:%M:%S", 17, 29, 0, FALSE)},
        s \in {"in_progress", CompletedStatus} }

InitParse ==
    /\ reports \in ParseReports
    /\ logs = << >>
    /\ day = 1
    /\ now \in ParseClock
    /\ cycles = 0
    /\ sends = << >>
    /\ outcomes = << >>
    /\ autoLog = {}
    /\ settings = "enabled"
    /\ sheet \in ParseSheets
    /\ probe = NoProbe
    /\ InitLocal

\* one invocation after the other, each running one of the two dispatchers
NextParse ==
    \/ \E p \in Cron : Idle /\ SchedStart(p)
    \/ \E p \in Procs : SchedEvaluate(p)
    \/ \E p \in Procs : SchedRecord(p)
    \/ \E p \in Procs : SchedFinish(p)
    \/ \E p \in Cron : Idle /\ AutoStart(p)
    \/ \E p \in Procs : AutoEvaluate(p)
    \/ \E p \in Procs : AutoRecord(p)
    \/ \E p \in Procs : AutoFinish(p)
    \/ Tick(ParseClock)

SpecParse == InitParse /\ [][NextParse]_vars

\* the scheduled dispatcher is at an enabled report whose schedule_time is
\* not "HH:MM"
AtUnparseableSchedule(p) ==
    /\ pc[p] = "sched_loop" /\ queue[p] # << >>
    /\ cache[p][Head(queue[p])].schedule_enabled
    /\ ~cache[p][Head(queue[p])].schedule_time.ok

\* the automatic dispatcher is at a matched row whose delivery_time is not
\* a time in one of the four formats
AtUnparseableRow(p) ==
    /\ pc[p] = "auto_loop" /\ queue[p] # << >>
    /\ MatchingReport(cache[p], Head(queue[p]).task_id, 1) # {}
    /\ Head(queue[p]).delivery_time \in UnparseableTimes

\* C16: a report whose schedule_time, or whose status row's delivery_time,
\* cannot be parsed is skipped for the cycle: nothing is sent, no Delivery
\* Log entry is written, no bookkeeping changes, and the loop goes on to the
\* remaining reports.
C16_UnparseableTimeIsSkipped ==
    [][\A p \in Procs :
          ((AtUnparseableSchedule(p) \/ AtUnparseableRow(p)) /\ Steps(p))
              => /\ UNCHANGED <<sends, logs, reports, autoLog, outcomes>>
                 /\ results'[p] = results[p]
                 /\ pc'[p] = pc[p]
                 /\ queue'[p] = Tail(queue[p])]_vars

\* a scheduled cycle has gone past the report with the unparseable time to
\* the next report, and an automatic cycle that met the unparseable row
\* delivered the row after it
C16_Witness ==
    \E p \in Procs : \E i \in AutomaticSends :
        /\ pc[p] = "sched_loop" /\ Len(queue[p]) = 1
        /\ cache[p]["RPT_00001"].schedule_enabled
        /\ ~cache[p]["RPT_00001"].schedule_time.ok
        /\ sheet[1].delivery_time \in UnparseableTimes
        /\ sends[i].scheduled_time = HM(17, 30)
        /\ \A j \in DOMAIN sends : sends[j].scheduled_time = HM(17, 30)
        /\ \A j \in DOMAIN logs : logs[j].report_id # "RPT_00001"

\* ---------------------------------------------------- the target channel
ChannelEnvs ==
    { Env(default, {"general"}, history, TRUE, api_ok)
      : default \in {"", "C0"}, history \in {Thread1, Unrelated},
        api_ok \in BOOLEAN }

ChannelArgs ==
    [ channel : {"", " ", "general", "C1", "unknown"},
      thread_content : {"", "topic"},
      thread_ts : {""},
      env : ChannelEnvs ]

InitChannel ==
    /\ probe \in { [op |-> "none", args |-> a, result |-> NoResult] : a \in ChannelArgs }
    /\ Quiet

\* a scheduled or manual delivery: prepare_delivery_params, then
\* DeliveryExecutor.execute
CallDeliveryExecutorExecute ==
    /\ probe.op = "none"
    /\ probe' = [probe EXCEPT
                    !.op = "DeliveryExecutor.execute",
                    !.result = DeliveryExecutorExecute(
                                   PrepareDeliveryParams(probe.args), probe.args.env)]
    /\ UNCHANGED quietVars

\* an automatic delivery: deliver_report reads the channel as configured
CallDeliverReport ==
    /\ probe.op = "none"
    /\ probe.args.channel # " "
    /\ probe' = [probe EXCEPT
                    !.op = "deliver_report",
                    !.result = DeliverReport(probe.args, probe.args.env)]
    /\ UNCHANGED quietVars

NextChannel == CallDeliveryExecutorExecute \/ CallDeliverReport

SpecChannel == InitChannel /\ [][NextChannel]_vars

NoChannelAnywhere ==
    /\ probe.args.channel \in {"", " "}
    /\ probe.args.env.default_channel = ""

LoadLogs(stored, read_ok) == IF read_ok THEN stored ELSE << >>

\* save_logs: write_file replaces the whole file, or fails and leaves it
SaveLogs(stored, lg, write_ok) == IF write_ok THEN lg ELSE stored

\* add_log_entry on the stored file: load, append to today's bucket, save
AddLogEntryToStore(stored, entry, read_ok, write_ok) ==
    SaveLogs(stored, AddLogEntry(LoadLogs(stored, read_ok), entry), write_ok)

InitLog ==
    /\ reports \in SchedReports
    /\ logs = << >>
    /\ day = 1
    /\ now \in SchedClock
    /\ cycles = 0
    /\ sends = << >>
    /\ outcomes = << >>
    /\ autoLog = {}
    /\ settings = "disabled"
    /\ sheet = << >>
    /\ probe = NoProbe
    /\ InitLocal

\* one call of add_log_entry by a fresh DeliveryLogsManager
CallAddLogEntry ==
    /\ cycles < MaxLogCalls
    /\ cycles' = cycles + 1
    /\ \E rid \in ReportIds, status \in {"success", "failed", "skipped"},
          read_ok \in BOOLEAN, write_ok \in BOOLEAN :
          logs' = AddLogEntryToStore(
                      logs, LogEntry(day, rid, status, reports[rid].schedule_time, ""),
                      read_ok, write_ok)
    /\ UNCHANGED <<reports, day, now, sends, pc, cache, queue, ctime, res,
                   autoVars, probe>>

NextLog == CallAddLogEntry \/ NextDay(SchedClock)

SpecLog == InitLog /\ [][NextLog]_vars

\* C18: add_log_entry appends exactly one entry to the current day's bucket
\* and leaves every entry stored before unchanged and in place; a call
\* stores the whole new entry or changes nothing.
C18_AppendOnly ==
    [][cycles' # cycles
          => \/ logs' = logs
             \/ /\ Len(logs') = Len(logs) + 1
                /\ SubSeq(logs', 1, Len(logs)) = logs
                /\ logs'[Len(logs')].day = day]_vars

\* ------------------------------ automatic dispatcher: record and mirror
\* C19: on a successful automatic delivery the AutomaticDeliveryRecord entry
\* for the dedup key is written and the outcome is mirrored into the
\* Delivery Log; on a failed delivery no entry is written, so that the row
\* is evaluated again next cycle, and a failed entry is logged.
C19_RecordIffDelivered ==
    [][\A p \in Procs :
          /\ (pc[p] = "auto_record" /\ Steps(p))
                => /\ sends[Len(sends)].posted
                   /\ [day |-> day,
                       key |-> <<sends[Len(sends)].id,
                                 sends[Len(sends)].scheduled_time \div SecondsPerMinute>>]
                         \in autoLog'
                   /\ Len(logs') = Len(logs) + 1
                   /\ logs'[Len(logs')].status = "success"
          /\ (/\ pc[p] = "auto_loop" /\ queue[p] # << >> /\ Steps(p)
              /\ Len(sends') = Len(sends) + 1)
                => IF sends'[Len(sends')].posted
                   THEN pc'[p] = "auto_record"
                   ELSE /\ pc'[p] = "auto_loop"
                        /\ autoLog' = autoLog
                        /\ Len(results'[p]) = Len(results[p]) + 1
                        /\ results'[p][Len(results'[p])].status = "failed"
          /\ (pc[p] = "auto_loop" /\ queue[p] = << >> /\ Steps(p))
                => \A i \in DOMAIN results[p] :
                      results[p][i].status = "failed"
                          => \E j \in DOMAIN logs' :
                                /\ j > Len(logs)
                                /\ logs'[j].status = "failed"
                                /\ logs'[j].report_id = results[p][i].task_name]_vars

\* the part of C19 about deliveries that deliver_report itself reports as
\* failed
ReportedFailureWritesNoRecord ==
    [][\A p \in Procs :
          (/\ pc[p] = "auto_loop" /\ queue[p] # << >> /\ Steps(p)
           /\ Len(sends') = Len(sends) + 1
           /\ ~sends'[Len(sends')].success)
                => /\ pc'[p] = "auto_loop"
                   /\ autoLog' = autoLog
                   /\ results'[p][Len(results'[p])].status = "failed"]_vars

\* ------------------------------------- scheduled dispatcher: mode and flag
\* the reports the Add Report form and update_report can store: the flag is
\* a checkbox of its own, delivery_mode is whatever the caller gave, 'manual'
\* when it gave none
ModeReports ==
    { [r \in ReportIds |->
          IF r = "RPT_00001"
          THEN NewReport("daily", mode, enabled, Time(9, 0), "T-100", "", "")
          ELSE NewReport("weekly", "scheduled", TRUE, Time(9, 10), "", "general", "")]
      : mode \in {"manual", "scheduled", "automatic"}, enabled \in BOOLEAN }

InitMode ==
    /\ reports \in ModeReports
    /\ logs = << >>
    /\ day = 1
    /\ now \in SchedClock
    /\ cycles = 0
    /\ sends = << >>
    /\ outcomes = << >>
    /\ autoLog = {}
    /\ settings = "disabled"
    /\ sheet = << >>
    /\ probe = NoProbe
    /\ InitLocal

SpecMode == InitMode /\ [][NextSched]_vars

\* C20: the scheduled dispatcher sends only reports whose delivery_mode is
\* scheduled and whose scheduling flag is enabled; a report in manual or
\* automatic mode, or with the flag false, is never sent, logged or
\* modified by it.
C20_OnlyScheduledAndEnabledAreSent ==
    [][\A p \in Procs :
          (/\ pc[p] \in {"sched_loop", "sched_record"} /\ queue[p] # << >>
           /\ Steps(p)
           /\ \/ cache[p][Head(queue[p])].delivery_mode # "scheduled"
              \/ ~cache[p][Head(queue[p])].schedule_enabled)
              => UNCHANGED <<sends, logs, reports>>]_vars

\* the flag alone: a report with the flag false is passed over
FlagOffIsPassedOver ==
    [][\A p \in Procs :
          (/\ pc[p] \in {"sched_loop", "sched_record"} /\ queue[p] # << >>
           /\ Steps(p)
           /\ ~cache[p][Head(queue[p])].schedule_enabled)
              => UNCHANGED <<sends, logs, reports>>]_vars

\* ------------------------------------- automatic dispatcher: the matching
\* some report of the loaded configuration is in automatic mode and has the
\* row's task_id as its automatic_task_id
HasAutomaticReport(p, task_id) ==
    /\ cache[p] # << >>
    /\ \E r \in ReportIds :
          /\ cache[p][r].delivery_mode = "automatic"
          /\ cache[p][r].automatic_task_id = task_id

\* C21: a status row leads to the evaluation of a report only when that
\* report is in automatic mode and its automatic_task_id equals the row's
\* task_id; a row without such a report gives no send, no outcome and no
\* record.
C21_OnlyExactAutomaticMatchIsEvaluated ==
    [][\A p \in Procs :
          (pc[p] = "auto_loop" /\ queue[p] # << >> /\ Steps(p))
              => /\ ~HasAutomaticReport(p, Head(queue[p]).task_id)
                    => /\ UNCHANGED <<sends, outcomes, autoLog, logs, reports>>
                       /\ results'[p] = results[p]
                       /\ pc'[p] = "auto_loop"
                 /\ Len(sends') > Len(sends)
                    => LET rid == cache[p][CHOOSE r \in ReportIds :
                                     /\ cache[p][r].delivery_mode = "automatic"
                                     /\ cache[p][r].automatic_task_id
                                          = Head(queue[p]).task_id]
                       IN  /\ HasAutomaticReport(p, Head(queue[p]).task_id)
                           /\ sends'[Len(sends')].id = rid.automatic_task_id]_vars

\* a cycle inside the window has delivered T-100 and has gone past the
\* complete row of T-999, whose only report is in manual mode: nothing was
\* sent or reported for T-999
C21_Witness ==
    \E p \in Procs : \E i \in AutomaticSends :
        /\ pc[p] = "auto_loop" /\ queue[p] = << >>
        /\ now \in HM(17, 25)..HM(17, 30)
        /\ \E r \in DOMAIN sheet :
              sheet[r].task_id = "T-999" /\ sheet[r].status = CompletedStatus
        /\ \E r \in ReportIds :
              /\ cache[p] # << >>
              /\ cache[p][r].automatic_task_id = "T-999"
              /\ cache[p][r].delivery_mode = "manual"
        /\ sends[i].id = "T-100" /\ sends[i].cycle = ctime[p].cycle
        /\ \A j \in DOMAIN sends : sends[j].id # "T-999"
        /\ \A j \in DOMAIN outcomes : outcomes[j].task_name # "T-999"

\* ------------------------------------------------- the message composer
ComposeArgs ==
    [ receiver_mention : {"<@U1>", "@sato"},
      author_mention : {"<@U2>", "@kim"},
      date_str : {"2026/01/01", "2026/01/02"},
      raw_data_link : {None, "", "https://raw"},
      file_link : {None, "", "https://file"} ]

InitCompose ==
    /\ probe \in { [op |-> "none", args |-> a, result |-> << >>] : a \in ComposeArgs }
    /\ Quiet

\* the text of send_type1_message
CallComposeType1Message ==
    /\ probe.op = "none"
    /\ probe' = [probe EXCEPT
                    !.op = "send_type1_message",
                    !.result = ComposeType1Message(
                                   probe.args.receiver_mention,
                                   probe.args.author_mention, probe.args.date_str,
                                   probe.args.raw_data_link, probe.args.file_link)]
    /\ UNCHANGED quietVars

\* the text of send_type1_message_with_file
CallComposeType1MessageWithFile ==
    /\ probe.op = "none"
    /\ probe' = [probe EXCEPT
                    !.op = "send_type1_message_with_file",
                    !.result = ComposeType1MessageWithFile(
                                   probe.args.receiver_mention,
                                   probe.args.author_mention, probe.args.date_str,
                                   probe.args.raw_data_link)]
    /\ UNCHANGED quietVars

NextCompose == CallComposeType1Message \/ CallComposeType1MessageWithFile

SpecCompose == InitCompose /\ [][NextCompose]_vars

HasBlock(message, kind) == \E i \in DOMAIN message : message[i].kind = kind

\* C22: the composed message omits a block if and only if the field the
\* block is made from is empty or null, for the raw-data-link block and for
\* the primary link block; the text is a function of the report fields, the
\* resolved identities and the date string.
C22_BlockOmittedIffFieldEmpty ==
    /\ probe.op \in {"send_type1_message", "send_type1_message_with_file"}
          => (~HasBlock(probe.result, "raw_data")
                 <=> probe.args.raw_data_link \in {"", "None"})
    /\ probe.op = "send_type1_message"
          => (~HasBlock(probe.result, "link")
                 <=> probe.args.file_link \in {"", "None"})

\* the raw-data-link block alone
RawDataBlockOmittedIffFieldEmpty ==
    probe.op \in {"send_type1_message", "send_type1_message_with_file"}
        => (~HasBlock(probe.result, "raw_data")
               <=> probe.args.raw_data_link \in {"", "None"})

\* ------------------------------------- the recipient resolver, call by call
MemberKinds ==
    { [exact |-> k[1], substring |-> k[2], ratio |-> k[3],
       deleted |-> f[1], is_bot |-> f[2]]
      : k \in { <<TRUE, TRUE, ExactScore>>, <<FALSE, TRUE, 90>>,
                <<FALSE, FALSE, FuzzyThreshold + 1>>, <<FALSE, FALSE, 50>> },
        f \in { <<FALSE, FALSE>>, <<TRUE, FALSE>>, <<FALSE, TRUE>> } }

\* the members users_list returns, each with its own id
Members ==
    UNION { { [i \in 1..n |-> [id |-> i] @@ k[i]] : k \in [1..n -> MemberKinds] }
            : n \in 0..(MaxUsers - 1) }

InitDirectory ==
    /\ probe \in { [op |-> "none", members |-> m, users_cache |-> NoUsersCache,
                    results |-> << >>] : m \in Members }
    /\ Quiet

\* one more call of _find_user_by_name on the same client, for the same name
CallFindUserByNameAgain ==
    /\ Len(probe.results) < MaxCalls
    /\ \E api_ok \in BOOLEAN :
          LET cached == GetUsersList(probe.users_cache, probe.members, api_ok)
          IN  probe' = [probe EXCEPT
                           !.op = "_find_user_by_name",
                           !.users_cache = cached,
                           !.results = Append(@, FindUserByName(cached.users))]
    /\ UNCHANGED quietVars

NextDirectory == CallFindUserByNameAgain

SpecDirectory == InitDirectory /\ [][NextDirectory]_vars

\* C23: for a fixed directory and a fixed name, repeated calls of the
\* recipient resolver return the same identity, confidence and match kind,
\* and the directory is left as it was.
C23_ResolverIsDeterministic ==
    /\ [](\A i, j \in DOMAIN probe.results :
            /\ probe.results[i].found = probe.results[j].found
            /\ probe.results[i].found
                  => probe.results[i].user = probe.results[j].user
            /\ probe.results[i].score = probe.results[j].score
            /\ probe.results[i].matched_field = probe.results[j].matched_field)
    /\ [][probe'.members = probe.members]_vars

\* three calls on a directory with a deleted member and a member that
\* matches: the last call returned the first call's match
C23_Witness ==
    /\ Len(probe.results) = 3
    /\ probe.results[1].found
    /\ probe.results[3] = probe.results[1]
    /\ \E i \in DOMAIN probe.members : probe.members[i].deleted

\* -------------------------- automatic dispatcher: delivered means accepted
\* C24: an automatic delivery counts as delivered, and its dedup key is
\* written, only if Slack accepted the message: when the send returns a
\* failure result deliver_report returns success = false and no
\* AutomaticDeliveryRecord entry is written.
C24_DeliveredOnlyIfAccepted ==
    /\ \A i \in AutomaticSends : sends[i].success => sends[i].posted
    /\ \A rec \in autoLog :
          \E i \in AutomaticSends :
              /\ sends[i].posted
              /\ sends[i].day = rec.day
              /\ rec.key = <<sends[i].id, sends[i].scheduled_time \div SecondsPerMinute>>

\* --------------------------------------------- the stores and failed reads
\* load_reports: read_file gives None when the request or the parse fails,
\* and None becomes {}
LoadReports(stored, read_ok) == IF read_ok THEN stored ELSE << >>

\* the largest number among the keys of the form RPT_ddddd, 0 without any
MaxId(rs) ==
    IF DOMAIN rs = {} THEN 0
    ELSE CHOOSE n \in DOMAIN rs : \A k \in DOMAIN rs : k <= n

\* add_report on the stored file: the map that is stored after the call.
\* A report is kept under the number of its id.
AddReportToStore(stored, data, read_ok, write_ok) ==
    LET rs == LoadReports(stored, read_ok)
        new_id == MaxId(rs) + 1
        saved == [k \in DOMAIN rs \cup {new_id} |->
                     IF k = new_id THEN StandardizeReportData(data) ELSE rs[k]]
    IN  IF write_ok THEN saved ELSE stored

\* load_delivery_log on the stored file: the log it returns and the file
\* after the call; on None it saves {} as the initial log
LoadDeliveryLogOrCreate(stored, read_ok, write_ok) ==
    IF read_ok THEN [log |-> stored, stored |-> stored]
    ELSE [log |-> {}, stored |-> IF write_ok THEN {} ELSE stored]

\* mark_as_delivered on the stored file: load, add the key, save
MarkAsDeliveredInStore(stored, today, report_name, sec, read_ok, write_ok) ==
    LET loaded == LoadDeliveryLogOrCreate(stored, read_ok, write_ok)
        saved == MarkAsDelivered(loaded.log, today, report_name, sec)
    IN  IF write_ok THEN saved ELSE loaded.stored

StoreCall(op, read_ok, write_ok) ==
    [op |-> op, read_ok |-> read_ok, write_ok |-> write_ok]

InitStore ==
    /\ reports = << >>
    /\ logs = << >>
    /\ day = 1
    /\ now \in {HM(17, 28), HM(17, 30)}
    /\ cycles = 0
    /\ sends = << >>
    /\ outcomes = << >>
    /\ autoLog = {}
    /\ settings = "enabled"
    /\ sheet = << >>
    /\ probe = StoreCall("none", TRUE, TRUE)
    /\ InitLocal

StoreAddLogEntry ==
    /\ cycles < MaxLogCalls
    /\ cycles' = cycles + 1
    /\ \E status \in {"success", "failed"}, read_ok \in BOOLEAN, write_ok \in BOOLEAN :
          /\ logs' = AddLogEntryToStore(
                         logs, LogEntry(day, "RPT_00001", status, Time(9, 0), ""),
                         read_ok, write_ok)
          /\ probe' = StoreCall("add_log_entry", read_ok, write_ok)
    /\ UNCHANGED <<reports, day, now, sends, pc, cache, queue, ctime, res,
                   autoVars>>

StoreLoadDeliveryLog ==
    /\ cycles < MaxLogCalls
    /\ cycles' = cycles + 1
    /\ \E read_ok \in BOOLEAN, write_ok \in BOOLEAN :
          /\ autoLog' = LoadDeliveryLogOrCreate(autoLog, read_ok, write_ok).stored
          /\ probe' = StoreCall("load_delivery_log", read_ok, write_ok)
    /\ UNCHANGED <<reports, logs, day, now, sends, pc, cache, queue, ctime, res,
                   settings, sheet, results, alog, outcomes>>

StoreMarkAsDelivered ==
    /\ cycles < MaxLogCalls
    /\ cycles' = cycles + 1
    /\ \E sec \in {HM(17, 25), HM(17, 30)}, read_ok \in BOOLEAN, write_ok \in BOOLEAN :
          /\ autoLog' = MarkAsDeliveredInStore(autoLog, day, "T-100", sec,
                                               read_ok, write_ok)
          /\ probe' = StoreCall("mark_as_delivered", read_ok, write_ok)
    /\ UNCHANGED <<reports, logs, day, now, sends, pc, cache, queue, ctime, res,
                   settings, sheet, results, alog, outcomes>>

StoreAddReport ==
    /\ cycles < MaxLogCalls
    /\ cycles' = cycles + 1
    /\ \E mode \in {"manual", "scheduled"}, read_ok \in BOOLEAN, write_ok \in BOOLEAN :
          /\ reports' = AddReportToStore(
                            reports,
                            NewReport("daily", mode, mode = "scheduled", Time(9, 0),
                                      "", "", ""),
                            read_ok, write_ok)
          /\ probe' = StoreCall("add_report", read_ok, write_ok)
    /\ UNCHANGED <<logs, day, now, sends, pc, cache, queue, ctime, res, autoVars>>

NextStore ==
    \/ StoreAddLogEntry
    \/ StoreLoadDeliveryLog
    \/ StoreMarkAsDelivered
    \/ StoreAddReport

SpecStore == InitStore /\ [][NextStore]_vars

\* everything that was stored is still stored after the step
StoredDataIsKept ==
    /\ Len(logs') >= Len(logs) /\ SubSeq(logs', 1, Len(logs)) = logs
    /\ autoLog \subseteq autoLog'
    /\ \A k \in DOMAIN reports : k \in DOMAIN reports' /\ reports'[k] = reports[k]

\* C25: a failed read of the Report Store never makes stored data be
\* overwritten or lost: after add_log_entry, load_delivery_log,
\* mark_as_delivered or add_report met a failed read, every log entry, dedup
\* record and report stored before is still there.
C25_FailedReadLosesNothing ==
    [][(cycles' # cycles /\ ~probe'.read_ok) => StoredDataIsKept]_vars

\* the same for calls whose read succeeded
GoodReadLosesNothing ==
    [][(cycles' # cycles /\ probe'.read_ok) => StoredDataIsKept]_vars

\* ------------------------------------ two add_log_entry calls interleaved
\* probe holds the file's version (its blob sha) and, for each process, the
\* log it loaded, the sha it fetched for the PUT, and what the call returned.
NoCall == [at |-> "start", loaded |-> << >>, sha |-> 0, returned |-> "none"]

RaceEntry(p) == LogEntry(day, p, "success", Time(9, 0), "")

InitRace ==
    /\ reports \in SchedReports
    /\ logs \in { << >>, << LogEntry(1, "RPT_00001", "failed", Time(9, 0), "") >> }
    /\ day = 1
    /\ now \in SchedClock
    /\ cycles = 0
    /\ sends = << >>
    /\ outcomes = << >>
    /\ autoLog = {}
    /\ settings = "disabled"
    /\ sheet = << >>
    /\ probe = [version |-> 1, call |-> [p \in Procs |-> NoCall]]
    /\ InitLocal

\* load_logs: the GET of read_file by a fresh DeliveryLogsManager
RaceLoad(p) ==
    /\ probe.call[p].at = "start"
    /\ probe' = [probe EXCEPT !.call[p].at = "loaded", !.call[p].loaded = logs]
    /\ UNCHANGED <<quietVars>>

\* write_file, first half: _get_file_sha reads the sha of the stored file
RaceGetFileSha(p) ==
    /\ probe.call[p].at = "loaded"
    /\ probe' = [probe EXCEPT !.call[p].at = "sha", !.call[p].sha = probe.version]
    /\ UNCHANGED <<quietVars>>

\* write_file, second half: the PUT with that sha; GitHub refuses it when
\* the file has another sha by now, and the PUT may fail for other reasons
RacePut(p) ==
    /\ probe.call[p].at = "sha"
    /\ \E write_ok \in BOOLEAN :
          IF write_ok /\ probe.call[p].sha = probe.version
          THEN /\ logs' = AddLogEntry(probe.call[p].loaded, RaceEntry(p))
               /\ probe' = [probe EXCEPT !.version = @ + 1,
                                         !.call[p].at = "done",
                                         !.call[p].returned = "true"]
          ELSE /\ logs' = logs
               /\ probe' = [probe EXCEPT !.call[p].at = "done",
                                         !.call[p].returned = "false"]
    /\ UNCHANGED <<reports, day, now, cycles, sends, pc, cache, queue, ctime, res,
                   autoVars>>

NextRace ==
    \/ \E p \in Procs : RaceLoad(p)
    \/ \E p \in Procs : RaceGetFileSha(p)
    \/ \E p \in Procs : RacePut(p)

SpecRace == InitRace /\ [][NextRace]_vars

\* C26: when two add_log_entry calls of different processes interleave,
\* both entries are in the stored Delivery Log after both calls have
\* returned success.
C26_BothEntriesStored ==
    (\A p \in Procs : probe.call[p].returned = "true")
        => \A p \in Procs : \E i \in DOMAIN logs : logs[i] = RaceEntry(p)

\* calls that do not interleave: the second loads after the first has saved
OneAfterTheOtherStoresBoth ==
    (/\ \A p \in Procs : probe.call[p].returned = "true"
     /\ \E p, q \in Procs : p # q /\ Len(probe.call[q].loaded) > Len(probe.call[p].loaded))
        => \A p \in Procs : \E i \in DOMAIN logs : logs[i] = RaceEntry(p)

\* ------------------------------ scheduled dispatcher: a window over midnight
MidnightClock == { HM(0, 5), HM(23, 50) }

MidnightReports ==
    [r \in ReportIds |->
        IF r = "RPT_00001"
        THEN NewReport("nightly", "scheduled", TRUE, Time(23, 55), "", "", "")
        ELSE NewReport("weekly", "scheduled", FALSE, Time(9, 10), "", "general", "")]

InitMidnight ==
    /\ reports = MidnightReports
    /\ logs = << >>
    /\ day = 1
    /\ now \in MidnightClock
    /\ cycles = 0
    /\ sends = << >>
    /\ outcomes = << >>
    /\ autoLog = {}
    /\ settings = "disabled"
    /\ sheet = << >>
    /\ probe = NoProbe
    /\ InitLocal

NextMidnight ==
    \/ \E p \in Cron : Idle /\ SchedStart(p)
    \/ \E p \in Procs : SchedEvaluate(p)
    \/ \E p \in Procs : SchedRecord(p)
    \/ \E p \in Procs : SchedFinish(p)
    \/ Tick(MidnightClock)
    \/ NextDay(MidnightClock)

SpecMidnight == InitMidnight /\ [][NextMidnight]_vars

\* the successful sends of the 23:55 report
NightlySends ==
    {i \in DOMAIN sends :
        sends[i].kind = "scheduled" /\ sends[i].id = "RPT_00001" /\ sends[i].success}

\* C27: for a report scheduled within 15 minutes of midnight, the cycles
\* inside one firing window that spans midnight (23:50 and 00:05 for 23:55)
\* give at most one send for that occurrence, and the dedup date written by
\* a send after midnight does not suppress the same calendar day's own later
\* occurrence.
C27_OneSendPerWindowOverMidnight ==
    /\ [](\A i, j \in NightlySends :
            ~(/\ sends[i].at = HM(23, 50) /\ sends[j].at = HM(0, 5)
              /\ sends[j].day = sends[i].day + 1))
    /\ [][\A p \in Procs :
            (/\ pc[p] = "sched_loop" /\ queue[p] # << >> /\ Steps(p)
             /\ Head(queue[p]) = "RPT_00001"
             /\ now = HM(23, 50)
             /\ \A i \in NightlySends : sends[i].day = day => sends[i].at = HM(0, 5))
                => Len(sends') = Len(sends) + 1]_vars

\* ---------------------- automatic dispatcher: the dedup save may fail
\* mark_as_delivered when write_file may fail: save_delivery_log drops the
\* False it gets back, so the call goes on as after a save.  The key was
\* put into the dict read_file handed out, which is the cached object, so
\* the process's own cache has it either way.
AutoRecordSaveMayFail(p) ==
    /\ pc[p] = "auto_record"
    /\ \E log \in LoadDeliveryLog(alog[p], autoLog) : \E write_ok \in BOOLEAN :
       LET row == Head(queue[p])
           sec == ParseScheduledTime(row.delivery_time).sec
           saved == MarkAsDelivered(log, day, row.task_id, sec)
           rid == CHOOSE r \in MatchingReport(cache[p], row.task_id, 1) : TRUE
       IN  /\ autoLog' = IF write_ok THEN saved ELSE autoLog
           /\ alog' = [alog EXCEPT ![p] = Loaded(saved)]
           /\ logs' = AddLogEntry(logs,
                         LogEntry(day, DeliveryKey(row.task_id, sec),
                                  IF res[p].success THEN "success" ELSE "failed",
                                  HHMM(sec), ""))
           /\ results' = [results EXCEPT ![p] =
                             Append(@, AutoResult(row.task_id, rid, "delivered",
                                                  sec, ""))]
           /\ outcomes' = Append(outcomes,
                                 Outcome(ctime[p].cycle, day, now,
                                         AutoResult(row.task_id, rid, "delivered",
                                                    sec, "")))
    /\ Pop(p)
    /\ pc' = [pc EXCEPT ![p] = "auto_loop"]
    /\ res' = [res EXCEPT ![p] = NoResult]
    /\ UNCHANGED <<reports, day, now, cycles, sends, cache, ctime, settings,
                   sheet, probe>>

SaveSheets ==
    { << Row("T-100", CompletedStatus, DeliveryTime("%H:%M", 17, 30, 0, FALSE)),
         Row("T-100", s, DeliveryTime("%I:%M %p", 5, 30, 0, TRUE)) >>
      : s \in {"in_progress", CompletedStatus} }

InitSave ==
    /\ reports = KeyReports
    /\ logs = << >>
    /\ day = 1
    /\ now \in AutoClock
    /\ cycles = 0
    /\ sends = << >>
    /\ outcomes = << >>
    /\ autoLog = {}
    /\ settings = "enabled"
    /\ sheet \in SaveSheets
    /\ probe = NoProbe
    /\ InitLocal

NextSave ==
    \/ \E p \in Cron : Idle /\ AutoStart(p)
    \/ \E p \in Procs : AutoEvaluate(p)
    \/ \E p \in Procs : AutoRecordSaveMayFail(p)
    \/ \E p \in Procs : AutoFinish(p)
    \/ SheetUpdate
    \/ Tick(AutoClock)

SpecSave == InitSave /\ [][NextSave]_vars

\* C28: after a successful automatic send the same report is not sent again
\* for the same deadline on that day, by a later sequential cycle or by a
\* later status row, also when saving the AutomaticDeliveryRecord failed.
C28_NoResendAfterFailedSave ==
    \A i, j \in AutomaticSends :
        (/\ i < j
         /\ sends[i].posted
         /\ sends[i].id = sends[j].id
         /\ sends[i].day = sends[j].day
         /\ sends[i].scheduled_time = sends[j].scheduled_time)
            => FALSE

\* within one cycle a later row of the same deadline is not sent while the
\* client's cached log is fresh
LaterRowOfTheCycleIsNotResent ==
    [][\A p \in Procs :
          (/\ pc[p] = "auto_loop" /\ queue[p] # << >> /\ Steps(p)
           /\ alog[p].loaded /\ alog' = alog
           /\ [day |-> day,
               key |-> DeliveryKey(Head(queue[p]).task_id,
                          ParseScheduledTime(Head(queue[p]).delivery_time).sec)]
                 \in alog[p].data)
              => sends' = sends]_vars

\* ------------------- scheduled dispatcher: reports.json with last_sent_date
\* load_reports hands out the parsed file as it is, so a 'last_sent_date'
\* the file carries reaches report_data.get('last_sent_date', '').
SkipReports ==
    { [r \in ReportIds |->
          IF r = "RPT_00001"
          THEN [NewReport("daily", "scheduled", TRUE, Time(9, 0), "", "", "")
                   EXCEPT !.last_sent_date = d,
                          !.delivery_count = IF d = NoDate THEN 0 ELSE 1,
                          !.last_delivered = IF d = NoDate THEN NoStamp
                                             ELSE Stamp(d, HM(9, 0))]
          ELSE [NewReport("weekly", "scheduled", TRUE, Time(9, 10), "",
                          "general", "")
                   EXCEPT !.last_sent_date = e]]
      : d \in 0..MaxDay, e \in {NoDate, 1} }

InitSkip ==
    /\ reports \in SkipReports
    /\ logs = << >>
    /\ day = 1
    /\ now \in SchedClock
    /\ cycles = 0
    /\ sends = << >>
    /\ outcomes = << >>
    /\ autoLog = {}
    /\ settings = "disabled"
    /\ sheet = << >>
    /\ probe = NoProbe
    /\ InitLocal

NextSkip ==
    \/ \E p \in Cron : Idle /\ SchedStart(p)
    \/ \E p \in Procs : SchedEvaluate(p)
    \/ \E p \in Procs : SchedRecord(p)
    \/ \E p \in Procs : SchedFinish(p)
    \/ Tick(SchedClock)
    \/ NextDay(SchedClock)

SpecSkip == InitSkip /\ [][NextSkip]_vars

\* the loop of p is at a report that is enabled, inside its firing window
\* and stored with last_sent_date equal to today
AtReportSentToday(p) ==
    /\ pc[p] = "sched_loop"
    /\ queue[p] # << >>
    /\ LET stored == reports[Head(queue[p])]
       IN  /\ stored.schedule_enabled
           /\ stored.schedule_time.ok
           /\ IsDue(CurrentMinutesTotal(now),
                    ScheduledMinutesTotal(stored.schedule_time))
           /\ stored.last_sent_date = day

\* C29: when a scheduling-enabled report is inside its firing window and its
\* stored last_sent_date equals today, the cycle sends nothing, leaves the
\* report's delivery_count, last_delivered and last_sent_date as they are,
\* and appends a skipped entry to the Delivery Log.
C29_SentTodayIsSkippedAndLogged ==
    [][\A p \in Procs :
          (AtReportSentToday(p) /\ Steps(p))
             => LET rid == Head(queue[p])
                IN  /\ sends' = sends
                    /\ reports'[rid].delivery_count = reports[rid].delivery_count
                    /\ reports'[rid].last_delivered = reports[rid].last_delivered
                    /\ reports'[rid].last_sent_date = reports[rid].last_sent_date
                    /\ Len(logs') = Len(logs) + 1
                    /\ logs'[Len(logs')].status = "skipped"
                    /\ logs'[Len(logs')].report_id = rid
                    /\ logs'[Len(logs')].day = day
                    /\ SubSeq(logs', 1, Len(logs)) = logs]_vars

\* a cycle has skipped a report that was stored as sent today, and the
\* same run has also sent a report that was not
C29_Witness ==
    /\ \E i \in DOMAIN logs :
          /\ logs[i].status = "skipped"
          /\ reports[logs[i].report_id].last_sent_date = logs[i].day
          /\ \A j \in DOMAIN sends :
                ~(sends[j].id = logs[i].report_id /\ sends[j].day = logs[i].day)
    /\ sends # << >>

\* ------------------------------------- the thread resolver: containment
\* the resolver was called with a hint and conversations_history answered
HistoryFetched ==
    /\ probe.op = "_find_matching_thread"
    /\ probe.args.thread_content # ""
    /\ probe.args.history_ok

\* the fetched messages, other than system messages, of which one text
\* contains the other ('' is contained in every hint)
Containing(history) ==
    {i \in DOMAIN history :
        history[i].subtype # "channel_join" /\ history[i].contains}

\* the anchor returned is that of a considered message no other considered
\* message outscores
AnchorIsOfMaximumScore ==
    probe.result.thread_ts # ""
        => \E i \in Candidates(probe.args.history) :
              /\ probe.args.history[i].ts = probe.result.thread_ts
              /\ \A j \in Candidates(probe.args.history) :
                    ScoreOf(probe.args.history[j]) <= ScoreOf(probe.args.history[i])

\* the anchor returned is that of a message scoring at least 0.8
AnchorScoresAtLeastBoost ==
    /\ probe.result.thread_ts # ""
    /\ \A i \in DOMAIN probe.args.history :
          probe.args.history[i].ts = probe.result.thread_ts
             => ScoreOf(probe.args.history[i]) >= SubstringBoost

\* C30 as stated: any fetched non-system message that contains the hint or is
\* contained in it scores at least 0.8, so whenever such a message exists a
\* non-null anchor is returned; the anchor returned is always that of a message
\* with the maximum score among the considered messages.
C30_ContainmentGivesAnchor ==
    HistoryFetched
        => /\ Containing(probe.args.history) # {} => AnchorScoresAtLeastBoost
           /\ AnchorIsOfMaximumScore

\* C30, amended: the same for the fetched non-system messages whose text is
\* not empty; a message with an empty text is passed over before it is
\* scored, although '' is contained in the hint.
C30_ContainmentOfTextGivesAnchor ==
    HistoryFetched
        => /\ (Containing(probe.args.history) \cap Candidates(probe.args.history)) # {}
                 => AnchorScoresAtLeastBoost
           /\ AnchorIsOfMaximumScore

\* a message whose ratio alone is below the threshold is returned because
\* it contains the hint, ahead of a message whose ratio is above it
C30_Witness ==
    /\ HistoryFetched
    /\ \E i, j \in Candidates(probe.args.history) :
          /\ probe.args.history[i].contains
          /\ probe.args.history[i].ratio < ThreadThreshold
          /\ ~probe.args.history[j].contains
          /\ probe.args.history[j].ratio > ThreadThreshold
          /\ probe.result.thread_ts = probe.args.history[i].ts

\* ------------------- the recipient resolver: containment in both directions
\* A member as _find_user_by_name sees it, with one more fact about it that
\* the code does not look at: within is "one of real_name, name and
\* display_name is in the name given" (for the lower-cased texts).  A text
\* that contains the other and is contained in it is equal to it.
ContainUser(id, exact, substring, within, ratio) ==
    [id |-> id, exact |-> exact, substring |-> substring, within |-> within,
     ratio |-> ratio]

ContainKinds ==
    { <<TRUE, TRUE, TRUE, ExactScore>>,
      <<FALSE, TRUE, FALSE, 50>>,
      <<FALSE, FALSE, TRUE, 50>>, <<FALSE, FALSE, TRUE, FuzzyThreshold + 1>>,
      <<FALSE, FALSE, FALSE, 50>>, <<FALSE, FALSE, FALSE, FuzzyThreshold + 1>> }

ContainDirectories ==
    UNION { { [i \in 1..n |-> ContainUser(i, k[i][1], k[i][2], k[i][3], k[i][4])]
              : k \in [1..n -> ContainKinds] }
            : n \in 0..MaxUsers }

InitContain ==
    /\ probe \in { [op |-> "none", args |-> [users |-> d, api_ok |-> ok],
                    result |-> NoMatch]
                   : d \in ContainDirectories, ok \in BOOLEAN }
    /\ Quiet

NextContain == CallFindUserByName \/ CallSendWithMention

SpecContain == InitContain /\ [][NextContain]_vars

\* no entry equals the name, and the name is in a field of some entry or a
\* field of some entry is in the name
ContainedEitherWay(users) ==
    /\ \A i \in DOMAIN users : ~users[i].exact
    /\ \E i \in DOMAIN users : users[i].substring \/ users[i].within

\* C31: a name matches a directory entry by substring, with confidence 0.9,
\* when the input is contained in one of the entry's three name fields or one
\* of those fields is contained in the input.
C31_SubstringEitherDirection ==
    (probe.op = "_find_user_by_name" /\ ContainedEitherWay(probe.args.users))
        => /\ probe.result.matched_field = "substring_match"
           /\ probe.result.score = SubstringScore
           /\ \E i \in DOMAIN probe.args.users :
                 /\ probe.args.users[i].id = probe.result.user
                 /\ probe.args.users[i].substring \/ probe.args.users[i].within

\* the direction the code tests: the name is in a field of some entry
NameInFieldIsSubstringMatch ==
    (/\ probe.op = "_find_user_by_name"
     /\ \A i \in DOMAIN probe.args.users : ~probe.args.users[i].exact
     /\ \E i \in DOMAIN probe.args.users : probe.args.users[i].substring)
        => /\ probe.result.matched_field = "substring_match"
           /\ probe.result.score = SubstringScore

\* ------------------------------ the recipient resolver: ties of the fuzzy pass
\* the entries of the directory that share the highest ratio
TopFuzzy(users) ==
    {i \in DOMAIN users : \A j \in DOMAIN users : users[j].ratio <= users[i].ratio}

\* the resolver was called and its answer came from the fuzzy pass
FuzzyAnswer ==
    /\ probe.op = "_find_user_by_name"
    /\ probe.result.matched_field = "fuzzy_match"

\* C32: in the fuzzy step the entry with the highest score above 0.8 is
\* returned, and when two entries have exactly equal highest score the one
\* seen last in directory order is returned.
C32_FuzzyTieGoesToLastSeen ==
    FuzzyAnswer
        => LET users == probe.args.users
           IN  /\ probe.result.score > FuzzyThreshold
               /\ \E i \in TopFuzzy(users) :
                     /\ users[i].id = probe.result.user
                     /\ users[i].ratio = probe.result.score
                     /\ \A j \in TopFuzzy(users) : j <= i

\* what the strict comparison gives: the highest score above 0.8, and among
\* equal highest scores the entry seen first
FuzzyTieGoesToFirstSeen ==
    FuzzyAnswer
        => LET users == probe.args.users
           IN  /\ probe.result.score > FuzzyThreshold
               /\ \E i \in TopFuzzy(users) :
                     /\ users[i].id = probe.result.user
                     /\ users[i].ratio = probe.result.score
                     /\ \A j \in TopFuzzy(users) : i <= j

\* ------------------------- automatic dispatcher: entries of the Delivery Log
\* the Delivery Log entries written for the automatic delivery of task for
\* the deadline sec on day d: the one of mark_as_delivered, under the
\* delivery key, and the one of send_automatic_reports, under the task name
EntriesOfDelivery(d, task, sec) ==
    {j \in DOMAIN logs :
        /\ logs[j].day = d
        /\ \/ /\ logs[j].status = "success"
              /\ logs[j].report_id = DeliveryKey(task, sec)
           \/ /\ logs[j].status = "delivered"
              /\ logs[j].report_id = task
              /\ logs[j].scheduled_time = sec}

\* the successful automatic sends of task for the deadline sec on day d
DeliveriesOf(d, task, sec) ==
    {i \in AutomaticSends :
        /\ sends[i].success /\ sends[i].day = d
        /\ sends[i].id = task /\ sends[i].scheduled_time = sec}

\* C33: each successful automatic delivery results in exactly one entry in
\* the Delivery Log for that delivery.
C33_OneLogEntryPerAutomaticDelivery ==
    Idle => \A i \in AutomaticSends :
               sends[i].success
                  => Cardinality(EntriesOfDelivery(sends[i].day, sends[i].id,
                                                   sends[i].scheduled_time))
                     = Cardinality(DeliveriesOf(sends[i].day, sends[i].id,
                                                sends[i].scheduled_time))

\* what the two writers give: two entries for every successful delivery
TwoLogEntriesPerAutomaticDelivery ==
    Idle => \A i \in AutomaticSends :
               sends[i].success
                  => Cardinality(EntriesOfDelivery(sends[i].day, sends[i].id,
                                                   sends[i].scheduled_time))
                     = 2 * Cardinality(DeliveriesOf(sends[i].day, sends[i].id,
                                                    sends[i].scheduled_time))

\* --------------------- automatic dispatcher: reports that share a task id
SharedReports ==
    { [r \in ReportIds |->
          IF r = "RPT_00001"
          THEN NewReport("first", "automatic", FALSE, Time(9, 0), "T-100",
                         "general", "")
          ELSE NewReport("second", mode, FALSE, Time(9, 0), task, "general", "")]
      : mode \in {"automatic", "manual"}, task \in {"T-100", "T-999"} }

InitShared ==
    /\ reports \in SharedReports
    /\ logs = << >>
    /\ day = 1
    /\ now \in AutoClock
    /\ cycles = 0
    /\ sends = << >>
    /\ outcomes = << >>
    /\ autoLog = {}
    /\ settings = "enabled"
    /\ sheet \in AutoSheets
    /\ probe = NoProbe
    /\ InitLocal

NextShared ==
    \/ \E p \in Cron : Idle /\ AutoStart(p)
    \/ \E p \in Procs : AutoEvaluate(p)
    \/ \E p \in Procs : AutoRecord(p)
    \/ \E p \in Procs : AutoFinish(p)
    \/ SheetUpdate
    \/ Tick(AutoClock)

SpecShared == InitShared /\ [][NextShared]_vars

\* the reports in automatic mode that p loaded for the task
ReportsOfTask(p, task) ==
    {r \in ReportIds : /\ cache[p][r].delivery_mode = "automatic"
                       /\ cache[p][r].automatic_task_id = task}

\* the reports p has delivered in its cycle for the task
DeliveredFor(p, task) ==
    {results[p][i].report_id : i \in
        {j \in DOMAIN results[p] : /\ results[p][j].status = "delivered"
                                   /\ results[p][j].task_name = task}}

\* C34: every automatic-mode report whose automatic_task_id equals the
\* task_id of a complete, in-window, not-yet-delivered status row is delivered
\* in that cycle, also when two or more automatic reports are configured with
\* the same automatic_task_id.
C34_EveryReportOfTheTaskIsDelivered ==
    \A p \in Procs :
        (pc[p] = "auto_loop" /\ queue[p] = << >>)
            => \A i \in DOMAIN results[p] :
                  results[p][i].status = "delivered"
                     => ReportsOfTask(p, results[p][i].task_name)
                           \subseteq DeliveredFor(p, results[p][i].task_name)

\* what the break of the matching loop gives: the first report of the task,
\* in the order of reports.json, is the only one delivered
OnlyFirstReportOfTheTaskIsDelivered ==
    \A p \in Procs :
        (pc[p] = "auto_loop" /\ queue[p] = << >>)
            => \A i \in DOMAIN results[p] :
                  results[p][i].status = "delivered"
                     => DeliveredFor(p, results[p][i].task_name)
                           = MatchingReport(cache[p], results[p][i].task_name, 1)

\* ------------------------------------------- scheduler.py: ReportScheduler
\* the most threads start_scheduler creates in a run
MaxThreads == 2
\* the most start_scheduler and stop_scheduler calls in a run
MaxSchedulerCalls == 4

Threads == 1..MaxThreads

\* ReportScheduler(): running is False and no thread exists.  at is where
\* each thread of run_scheduler stands, lastRun the number of the start
\* after which it last executed schedule.run_pending().
InitLoop ==
    /\ probe = [running |-> FALSE, scheduled |-> FALSE,
                at |-> [t \in Threads |-> "none"],
                lastRun |-> [t \in Threads |-> 0],
                starts |-> 0, calls |-> 0]
    /\ Quiet

\* start_scheduler: return if running; else set the flag and start a thread
StartScheduler ==
    /\ probe.calls < MaxSchedulerCalls
    /\ IF probe.running
       THEN probe' = [probe EXCEPT !.calls = @ + 1]
       ELSE \E t \in Threads :
              /\ probe.at[t] = "none"
              /\ \A u \in Threads : u < t => probe.at[u] # "none"
              /\ probe' = [probe EXCEPT !.running = TRUE,
                                        !.at[t] = "load",
                                        !.starts = @ + 1,
                                        !.calls = @ + 1]
    /\ UNCHANGED quietVars

\* stop_scheduler: clear the flag and the jobs; the thread is not joined
StopScheduler ==
    /\ probe.calls < MaxSchedulerCalls
    /\ probe' = [probe EXCEPT !.running = FALSE, !.scheduled = FALSE,
                              !.calls = @ + 1]
    /\ UNCHANGED quietVars

\* run_scheduler: load_and_schedule_all_reports
LoopLoad(t) ==
    /\ probe.at[t] = "load"
    /\ probe' = [probe EXCEPT !.scheduled = TRUE, !.at[t] = "test"]
    /\ UNCHANGED quietVars

\* run_scheduler: while self.running: schedule.run_pending(), then sleep
LoopTest(t) ==
    /\ probe.at[t] = "test"
    /\ probe' = IF probe.running
                THEN [probe EXCEPT !.at[t] = "sleep",
                                   !.lastRun[t] = probe.starts]
                ELSE [probe EXCEPT !.at[t] = "ended"]
    /\ UNCHANGED quietVars

\* run_scheduler: time.sleep(60) returns
LoopWake(t) ==
    /\ probe.at[t] = "sleep"
    /\ probe' = [probe EXCEPT !.at[t] = "test"]
    /\ UNCHANGED quietVars

NextLoop ==
    \/ StartScheduler
    \/ StopScheduler
    \/ \E t \in Threads : LoopLoad(t)
    \/ \E t \in Threads : LoopTest(t)
    \/ \E t \in Threads : LoopWake(t)

SpecLoop == InitLoop /\ [][NextLoop]_vars

\* the loops that have executed jobs since the latest start_scheduler
LoopsExecutingJobs ==
    {t \in Threads : probe.starts > 0 /\ probe.lastRun[t] = probe.starts}

\* C35: after any sequence of start_scheduler and stop_scheduler calls at most
\* one background scheduler loop is executing jobs; a stop followed by a start
\* before the old loop wakes from its sleep does not leave two loops running,
\* and a start while already running creates no second loop.
C35_AtMostOneSchedulerLoop ==
    /\ [](Cardinality(LoopsExecutingJobs) <= 1)
    /\ [][probe.running => \A t \in Threads :
                              probe.at[t] = "none" => probe'.at[t] = "none"]_vars

\* a start while already running creates no second loop
StartWhileRunningCreatesNoLoop ==
    [][probe.running => \A t \in Threads :
                           probe.at[t] = "none" => probe'.at[t] = "none"]_vars

\* --------------------------------- the firing window at the day boundary
WindowClock ==
    { HM(23, 54), HM(23, 55), HM(23, 58), HM(0, 0), HM(0, 1), HM(0, 2),
      HM(0, 3), HM(17, 24), HM(17, 27), HM(17, 30) }

WindowDeadlines ==
    { DeliveryTime("%H:%M", 0, 0, 0, FALSE), DeliveryTime("%H:%M", 0, 2, 0, FALSE),
      DeliveryTime("%I:%M %p", 12, 4, 0, FALSE),
      DeliveryTime("%H:%M", 0, 5, 0, FALSE),
      DeliveryTime("%H:%M", 17, 30, 0, FALSE) }

InitWindow ==
    /\ probe \in { [op |-> "none",
                    args |-> [day |-> d, now |-> t, delivery_time |-> c],
                    result |-> FALSE]
                   : d \in 1..MaxDay, t \in WindowClock, c \in WindowDeadlines }
    /\ Quiet

\* parse_scheduled_time, which puts the time of day on today's date, and
\* should_check_now for what it returned
CallShouldCheckNow ==
    /\ probe.op = "none"
    /\ LET scheduled_time == ParseScheduledTime(probe.args.delivery_time)
       IN  probe' = [probe EXCEPT
                        !.op = "should_check_now",
                        !.result =
                            /\ scheduled_time.ok
                            /\ ShouldCheckNow(
                                   Instant(probe.args.day, probe.args.now),
                                   Instant(probe.args.day, scheduled_time.sec))]
    /\ UNCHANGED quietVars

NextWindow == CallShouldCheckNow

SpecWindow == InitWindow /\ [][NextWindow]_vars

\* the seconds from the time of day now to the next time the clock shows sec
SecondsUntil(now_sec, sec) == (sec - now_sec + SecondsPerDay) % SecondsPerDay

\* C36: for every deadline HH:MM, also one in the first five minutes after
\* midnight, should_check_now is true at every instant of the five minutes
\* before the deadline (at 23:58 for a 00:02 deadline), so the firing window
\* is never shortened by the day boundary.
C36_WindowIsNotShortenedAtMidnight ==
    probe.op = "should_check_now"
        => (SecondsUntil(probe.args.now,
                         ParseScheduledTime(probe.args.delivery_time).sec)
               <= WindowMinutes * SecondsPerMinute
            => probe.result)

\* what the code gives: the window is the part of the five minutes that lies
\* on the deadline's own calendar day
WindowOfTheSameDay ==
    probe.op = "should_check_now"
        => LET sec == ParseScheduledTime(probe.args.delivery_time).sec
           IN  probe.result <=>
                  /\ probe.args.now <= sec
                  /\ sec - probe.args.now <= WindowMinutes * SecondsPerMinute

\* ------------------------------- automatic mode: the mentions of a message
\* A row as get_status_reports returns it: a dict with these keys (the other
\* keys play no part in the mentions).
StatusRow(primary_author, secondary_confirm, deliverer) ==
    [primary_author |-> primary_author, secondary_confirm |-> secondary_confirm,
     deliverer |-> deliverer]

\* author_columns of deliver_report: the headers of the sheet's three author
\* columns, '(1次作成者）', '(2次確認)' and '納品者', written here in Latin letters
author_columns == <<"(1ji sakuseisha)", "(2ji kakunin)", "nouhinsha">>

\* the loop over author_columns from column i on: report_data[col] for every
\* col that is a key of report_data with a non-empty value
RECURSIVE SheetAuthors(_, _)
SheetAuthors(report_data, i) ==
    IF i > Len(author_columns) THEN << >>
    ELSE IF author_columns[i] \in DOMAIN report_data
            /\ report_data[author_columns[i]] # ""
         THEN <<report_data[author_columns[i]]>> \o SheetAuthors(report_data, i + 1)
         ELSE SheetAuthors(report_data, i + 1)

\* deliver_report: author_mentions and receiver_mentions
AuthorMentions(report_config, report_data) ==
    SheetAuthors(report_data, 1)
        \o (IF report_config.author # "" THEN <<report_config.author>> ELSE << >>)

ReceiverMentions(report_config) ==
    IF report_config.receiver # "" THEN <<report_config.receiver>> ELSE << >>

MentionNames == {"", "sato", "abe"}

InitMentions ==
    /\ probe \in { [op |-> "none",
                    args |-> [report_data |-> StatusRow(a, b, c),
                              report_config |-> [author |-> x, receiver |-> y]],
                    result |-> [authors |-> << >>, receivers |-> << >>]]
                   : a \in MentionNames, b \in MentionNames, c \in MentionNames,
                     x \in MentionNames, y \in {"", "ito"} }
    /\ Quiet

\* one call of deliver_report, up to the mentions it hands to
\* send_type1_message
CallDeliverReportMentions ==
    /\ probe.op = "none"
    /\ probe' = [probe EXCEPT
                    !.op = "deliver_report",
                    !.result =
                        [authors |-> AuthorMentions(probe.args.report_config,
                                                    probe.args.report_data),
                         receivers |-> ReceiverMentions(probe.args.report_config)]]
    /\ UNCHANGED quietVars

NextMentions == CallDeliverReportMentions

SpecMentions == InitMentions /\ [][NextMentions]_vars

\* the non-empty names among a row's primary author, secondary reviewer and
\* deliverer, in that order
NamesOfRow(row) ==
    (IF row.primary_author # "" THEN <<row.primary_author>> ELSE << >>)
    \o (IF row.secondary_confirm # "" THEN <<row.secondary_confirm>> ELSE << >>)
    \o (IF row.deliverer # "" THEN <<row.deliverer>> ELSE << >>)

\* C37: in automatic mode the author mentions are the names found in the
\* matched row's author columns (primary author, secondary reviewer,
\* deliverer) followed by the report's configured author, both kept without
\* de-duplication, and the receiver mentions are only the configured receiver.
C37_MentionsAreRowAuthorsThenConfigured ==
    probe.op = "deliver_report"
        => /\ probe.result.authors =
                 NamesOfRow(probe.args.report_data)
                    \o (IF probe.args.report_config.author # ""
                        THEN <<probe.args.report_config.author>> ELSE << >>)
           /\ probe.result.receivers =
                 (IF probe.args.report_config.receiver # ""
                  THEN <<probe.args.report_config.receiver>> ELSE << >>)

\* what the code gives: no name of the row reaches the mentions
MentionsAreConfiguredOnly ==
    probe.op = "deliver_report"
        => /\ probe.result.authors =
                 (IF probe.args.report_config.author # ""
                  THEN <<probe.args.report_config.author>> ELSE << >>)
           /\ probe.result.receivers =
                 (IF probe.args.report_config.receiver # ""
                  THEN <<probe.args.report_config.receiver>> ELSE << >>)

\* ------------------------------------------------- cron_sender.py: main
\* One invocation of main by the process p1.  probe.phase is the statement of
\* main the process stands at, probe.base the value of cycles when it got
\* there, probe.calls the dispatcher calls main has made, with how each ended.
MainReports ==
    { [r \in ReportIds |->
          IF r = "RPT_00001"
          THEN NewReport("daily", "scheduled", TRUE, Time(9, 0), "", ch, "")
          ELSE NewReport("T-100", "automatic", FALSE, Time(9, 0), "T-100",
                         "general", "")]
      : ch \in {"", "general"} }

MainClock == { HM(9, 0), HM(17, 27) }

Call(who, outcome) == [who |-> who, outcome |-> outcome]

InitMain ==
    /\ reports \in MainReports
    /\ logs = << >>
    /\ day = 1
    /\ now \in MainClock
    /\ cycles = 0
    /\ sends = << >>
    /\ outcomes = << >>
    /\ autoLog = {}
    /\ settings \in {"enabled", "disabled"}
    /\ sheet \in SaveSheets
    /\ probe \in { [phase |-> "start", token |-> t, base |-> 0, calls |-> << >>]
                   : t \in BOOLEAN }
    /\ InitLocal

\* main up to the first dispatcher: sys.exit(1) without SLACK_BOT_TOKEN
MainLoadEnvironment ==
    /\ probe.phase = "start"
    /\ probe' = [probe EXCEPT !.phase = IF probe.token THEN "scheduled" ELSE "exit"]
    /\ UNCHANGED quietVars

\* the handlers of main if an exception or a None of send_scheduled_reports
\* ended main
MainScheduledEndsEarlyUncaught ==
    /\ probe.phase = "scheduled"
    /\ Idle
    /\ cycles = probe.base
    /\ \E outcome \in {"None", "raised", "0"} :
          probe' = [probe EXCEPT
                       !.phase = IF outcome = "0" THEN "automatic" ELSE "done",
                       !.calls = Append(@, Call("scheduled", outcome))]
    /\ UNCHANGED quietVars

\* send_scheduled_reports ends without visiting a report: it raises, or it
\* returns None (no reports found; total_sent += None raises TypeError in
\* main), or it returns 0 (its own handler caught an error).  main's handler
\* goes on to the automatic reports.
MainScheduledEndsEarly ==
    /\ probe.phase = "scheduled"
    /\ Idle
    /\ cycles = probe.base
    /\ \E outcome \in {"None", "raised", "0"} :
          probe' = [probe EXCEPT !.phase = "automatic",
                                 !.calls = Append(@, Call("scheduled", outcome))]
    /\ UNCHANGED quietVars

\* send_scheduled_reports() is called and loads the reports
MainSchedStart(p) ==
    /\ probe.phase = "scheduled"
    /\ cycles = probe.base
    /\ SchedStart(p)

\* send_scheduled_reports has returned reports_sent
MainScheduledReturns ==
    /\ probe.phase = "scheduled"
    /\ Idle
    /\ cycles = probe.base + 1
    /\ probe' = [probe EXCEPT !.phase = "automatic", !.base = cycles,
                              !.calls = Append(@, Call("scheduled", "returned"))]
    /\ UNCHANGED quietVars

\* send_automatic_reports() is called
MainAutoStart(p) ==
    /\ probe.phase = "automatic"
    /\ cycles = probe.base
    /\ AutoStart(p)

\* send_automatic_reports has returned delivered_count
MainAutomaticReturns ==
    /\ probe.phase = "automatic"
    /\ Idle
    /\ cycles = probe.base + 1
    /\ probe' = [probe EXCEPT !.phase = "done", !.base = cycles,
                              !.calls = Append(@, Call("automatic", "returned"))]
    /\ UNCHANGED quietVars

\* send_automatic_reports raises, or returns 0 from its own handler
MainAutomaticEndsEarly ==
    /\ probe.phase = "automatic"
    /\ Idle
    /\ cycles = probe.base
    /\ \E outcome \in {"raised", "0"} :
          probe' = [probe EXCEPT !.phase = "done",
                                 !.calls = Append(@, Call("automatic", outcome))]
    /\ UNCHANGED quietVars

NextMain ==
    \/ MainLoadEnvironment
    \/ \E p \in Cron : MainSchedStart(p)
    \/ \E p \in Procs : SchedEvaluate(p)
    \/ \E p \in Procs : SchedRecord(p)
    \/ \E p \in Procs : SchedFinish(p)
    \/ MainScheduledReturns
    \/ MainScheduledEndsEarly
    \/ \E p \in Cron : MainAutoStart(p)
    \/ \E p \in Procs : AutoEvaluate(p)
    \/ \E p \in Procs : AutoRecord(p)
    \/ \E p \in Procs : AutoFinish(p)
    \/ MainAutomaticReturns
    \/ MainAutomaticEndsEarly

SpecMain == InitMain /\ [][NextMain]_vars

\* C38: in one invocation cycle the scheduled dispatcher runs before the
\* automatic dispatcher, and the automatic dispatcher is always run, also
\* when the scheduled dispatcher raises, fails, or finds no reports.
C38_ScheduledThenAutomaticAlways ==
    /\ [](probe.phase = "done"
             => /\ Len(probe.calls) = 2
                /\ probe.calls[1].who = "scheduled"
                /\ probe.calls[2].who = "automatic")
    /\ [](\A i, j \in DOMAIN sends :
             (sends[i].kind = "scheduled" /\ sends[j].kind = "automatic") => i < j)
    /\ [][\A p \in Procs :
             (pc[p] = "idle" /\ pc'[p] = "auto_loop")
                => /\ Len(probe.calls) = 1
                   /\ probe.calls[1].who = "scheduled"]_vars

\* main has ended after a scheduled dispatcher that found no reports, and
\* the automatic dispatcher has delivered a report
C38_Witness ==
    /\ probe.phase = "done"
    /\ probe.calls[1].outcome = "None"
    /\ probe.calls[2].outcome = "returned"
    /\ \E i \in DOMAIN sends : sends[i].kind = "automatic" /\ sends[i].posted

\* --------------------------------------- report_manager.py: report ids
\* delete_report on the stored file: the map that is stored after the call
DeleteReportFromStore(stored, report_id, read_ok, write_ok) ==
    LET rs == LoadReports(stored, read_ok)
    IN  IF report_id \in DOMAIN rs
        THEN (IF write_ok THEN [k \in DOMAIN rs \ {report_id} |-> rs[k]]
              ELSE stored)
        ELSE stored

\* the number in the id add_report returns, 0 for None (the save failed)
AddReportReturns(stored, write_ok) ==
    IF write_ok THEN MaxId(LoadReports(stored, TRUE)) + 1 ELSE 0

\* f"RPT_{new_id:05d}" has five digits
HasFiveDigits(new_id) == new_id >= 0 /\ new_id < 100000

\* probe.assigned holds the numbers of the ids add_report has returned before
\* the call, probe.returned what the call returned
InitIds ==
    /\ reports = << >>
    /\ logs = << >>
    /\ day = 1
    /\ now \in {HM(17, 28), HM(17, 30)}
    /\ cycles = 0
    /\ sends = << >>
    /\ outcomes = << >>
    /\ autoLog = {}
    /\ settings = "enabled"
    /\ sheet = << >>
    /\ probe = [op |-> "none", returned |-> 0, assigned |-> {}]
    /\ InitLocal

\* add_report, the reads and the GET of the sha succeeding
IdsAddReport ==
    /\ cycles < MaxLogCalls + 1
    /\ cycles' = cycles + 1
    /\ \E mode \in {"manual", "scheduled"}, write_ok \in BOOLEAN :
          /\ reports' = AddReportToStore(
                            reports,
                            NewReport("daily", mode, mode = "scheduled", Time(9, 0),
                                      "", "", ""),
                            TRUE, write_ok)
          /\ probe' = [op |-> "add_report",
                       returned |-> AddReportReturns(reports, write_ok),
                       assigned |-> probe.assigned \cup
                                       (IF probe.op = "add_report"
                                        THEN {probe.returned} \ {0} ELSE {})]
    /\ UNCHANGED <<logs, day, now, sends, pc, cache, queue, ctime, res, autoVars>>

\* delete_report of a report the store may hold
IdsDeleteReport ==
    /\ cycles < MaxLogCalls + 1
    /\ cycles' = cycles + 1
    /\ \E report_id \in 1..(MaxLogCalls + 1), write_ok \in BOOLEAN :
          /\ reports' = DeleteReportFromStore(reports, report_id, TRUE, write_ok)
          /\ probe' = [op |-> "delete_report", returned |-> 0,
                       assigned |-> probe.assigned \cup
                                       (IF probe.op = "add_report"
                                        THEN {probe.returned} \ {0} ELSE {})]
    /\ UNCHANGED <<logs, day, now, sends, pc, cache, queue, ctime, res, autoVars>>

NextIds == IdsAddReport \/ IdsDeleteReport

SpecIds == InitIds /\ [][NextIds]_vars

\* C39: after any sequence of add_report and delete_report calls, add_report
\* never returns an id that was assigned to a report before, also after the
\* report holding the highest id has been deleted; every id it returns has the
\* form RPT_ followed by five digits.
C39_IdsAreNeverReused ==
    (probe.op = "add_report" /\ probe.returned # 0)
        => /\ probe.returned \notin probe.assigned
           /\ HasFiveDigits(probe.returned)

\* what max(existing_ids) + 1 gives: an id no stored report holds, of five
\* digits
IdIsNewAmongStoredReports ==
    [][\A n \in DOMAIN reports :
          (probe'.op = "add_report" /\ probe'.returned # 0 /\ cycles' # cycles)
             => probe'.returned # n /\ HasFiveDigits(probe'.returned)]_vars

====
